---------------------------- MODULE Spec2Model ----------------------------
(***************************************************************************)
(* A model of the privacy-preserving logging subsystem of logseq-mcp:      *)
(* the LogSanitizer (utils/sanitizer.py), the PrivacyFilter and the sink   *)
(* topology built by setup_logging (logging_config.py), and the logging    *)
(* calls of the tool dispatch layer (server.py).                           *)
(*                                                                         *)
(* Python strings are sequences of one-character strings, so that len(),   *)
(* slicing, regular expressions and formatting are computed and not        *)
(* assumed.  Python objects (dict, list) live in a heap and are referred   *)
(* to by address, so that copying, aliasing and in-place assignment are    *)
(* distinguishable.                                                        *)
(***************************************************************************)
EXTENDS Integers, Sequences, FiniteSets, TLC

-----------------------------------------------------------------------------
(* Characters and strings                                                  *)

DigitChars == <<"0", "1", "2", "3", "4", "5", "6", "7", "8", "9">>
LowerChars == <<"a", "b", "c", "d", "e", "f", "g", "h", "i", "j", "k", "l", "m",
                "n", "o", "p", "q", "r", "s", "t", "u", "v", "w", "x", "y", "z">>
UpperChars == <<"A", "B", "C", "D", "E", "F", "G", "H", "I", "J", "K", "L", "M",
                "N", "O", "P", "Q", "R", "S", "T", "U", "V", "W", "X", "Y", "Z">>

Range(s) == {s[i] : i \in 1..Len(s)}

\* The regular-expression classes \d, \s and \w restricted to ASCII.
ReDigit == Range(DigitChars)
ReSpace == {" ", "\t", "\n", "\r", "\f"}
ReWord == Range(LowerChars) \cup Range(UpperChars) \cup ReDigit \cup {"_"}

\* The printable ASCII characters in code order, from 32 (space) to 126 (~);
\* code 96 has no literal in TLA+ and is held by a placeholder.
Ascii == <<" ", "!", "\"", "#", "$", "%", "&", "'", "(", ")", "*", "+", ",",
           "-", ".", "/", "0", "1", "2", "3", "4", "5", "6", "7", "8", "9",
           ":", ";", "<", "=", ">", "?", "@", "A", "B", "C", "D", "E", "F",
           "G", "H", "I", "J", "K", "L", "M", "N", "O", "P", "Q", "R", "S",
           "T", "U", "V", "W", "X", "Y", "Z", "[", "\\", "]", "^", "_", "<backtick>",
           "a", "b", "c", "d", "e", "f", "g", "h", "i", "j", "k", "l", "m",
           "n", "o", "p", "q", "r", "s", "t", "u", "v", "w", "x", "y", "z",
           "{", "|", "}", "~">>

\* ord(c) of an ASCII character.
Ord(c) == IF c = "\n" THEN 10
          ELSE IF c = "\t" THEN 9
          ELSE IF c = "\r" THEN 13
          ELSE IF c = "\f" THEN 12
          ELSE 31 + (CHOOSE i \in 1..Len(Ascii) : Ascii[i] = c)

\* str.lower() of one character, and of a string.
LowerChar(c) == IF c \in Range(UpperChars)
                THEN LowerChars[CHOOSE i \in 1..Len(UpperChars) : UpperChars[i] = c]
                ELSE c
Lower(s) == [i \in 1..Len(s) |-> LowerChar(s[i])]

\* str(n) of an integer: its decimal digits.
RECURSIVE NatToStr(_)
NatToStr(n) == IF n < 10 THEN <<DigitChars[n + 1]>>
               ELSE Append(NatToStr(n \div 10), DigitChars[(n % 10) + 1])
IntToStr(n) == IF n < 0 THEN <<"-">> \o NatToStr(0 - n) ELSE NatToStr(n)

\* The index just past the longest run, starting at index i of s, of
\* characters that are in C (inside) or not in C (~inside); i itself when
\* there is none.
RunEnd(s, i, C, inside) ==
    IF i > Len(s) THEN i
    ELSE CHOOSE j \in i..(Len(s) + 1) :
            /\ j > Len(s) \/ ~((s[j] \in C) <=> inside)
            /\ \A k \in i..(j - 1) : (s[k] \in C) <=> inside

\* Whether s has the literal p at 1-based index i.
HasAt(s, i, p) == /\ i + Len(p) - 1 <= Len(s)
                  /\ \A k \in 1..Len(p) : s[i + k - 1] = p[k]

\* `sub in s` of two strings.
Contains(s, sub) == \E i \in 1..(Len(s) - Len(sub) + 1) : HasAt(s, i, sub)

-----------------------------------------------------------------------------
(* Python values.  A scalar carries its value; a dict or a list is a       *)
(* reference into the heap.  The tag t is compared before the payload v.   *)

StrV(s) == [t |-> "str", v |-> s]
IntV(n) == [t |-> "int", v |-> n]
BoolV(b) == [t |-> "bool", v |-> b]
NoneV == [t |-> "none", v |-> 0]
RefV(a) == [t |-> "ref", v |-> a]

\* A field the record does not have (hasattr is false).
Absent == [t |-> "absent", v |-> 0]

\* Heap objects: a dict is the sequence of its <<key, value>> items in
\* insertion order, a list the sequence of its elements.  The same two
\* constructors write a value as a tree, children in place of references.
DictObj(items) == [t |-> "dict", v |-> items]
ListObj(elems) == [t |-> "list", v |-> elems]

IsDict(h, x) == x.t = "ref" /\ h[x.v].t = "dict"
IsList(h, x) == x.t = "ref" /\ h[x.v].t = "list"
IsStr(x) == x.t = "str"

\* Python truthiness: `not x` is ~Truthy(h, x).
Truthy(h, x) == CASE x.t = "str"  -> Len(x.v) > 0
                  [] x.t = "int"  -> x.v # 0
                  [] x.t = "bool" -> x.v
                  [] x.t = "none" -> FALSE
                  [] x.t = "ref"  -> Len(h[x.v].v) > 0

\* Whether len(x) is defined, and its value.
HasLen(x) == x.t \in {"str", "ref"}
PyLen(h, x) == IF x.t = "str" THEN Len(x.v) ELSE Len(h[x.v].v)

\* str(x) of a scalar.
PyStrOf(x) == CASE x.t = "str"  -> x.v
                [] x.t = "int"  -> IntToStr(x.v)
                [] x.t = "bool" -> IF x.v THEN <<"T", "r", "u", "e">>
                                   ELSE <<"F", "a", "l", "s", "e">>
                [] x.t = "none" -> <<"N", "o", "n", "e">>

\* dict operations on the item sequence.
HasKey(items, k) == \E i \in 1..Len(items) : items[i][1] = k
GetItem(items, k) == items[CHOOSE i \in 1..Len(items) : items[i][1] = k][2]
SetItem(items, k, x) ==
    IF HasKey(items, k)
    THEN [i \in 1..Len(items) |-> IF items[i][1] = k THEN <<k, x>> ELSE items[i]]
    ELSE Append(items, <<k, x>>)

\* What a call gives back: a value, or an exception raised.  The heap h is
\* the heap after the call.
Return(h, x) == [exc |-> "none", v |-> x, h |-> h]
Raise(h, e) == [exc |-> e, v |-> NoneV, h |-> h]

\* The value x as a tree: every reference replaced by the object it names.
\* Two values are structurally equal (Python's ==) when their trees are.
RECURSIVE Deref(_, _)
Deref(h, x) ==
    IF x.t # "ref" THEN x
    ELSE IF h[x.v].t = "dict"
    THEN [t |-> "dict",
          v |-> [i \in 1..Len(h[x.v].v) |-> <<h[x.v].v[i][1], Deref(h, h[x.v].v[i][2])>>]]
    ELSE [t |-> "list", v |-> [i \in 1..Len(h[x.v].v) |-> Deref(h, h[x.v].v[i])]]

-----------------------------------------------------------------------------
(* LogSanitizer (utils/sanitizer.py).  `self` is the sanitizer instance,   *)
(* a record holding min_mask_length.                                       *)

\* LogSanitizer.__init__
LogSanitizer(min_mask_length) == [min_mask_length |-> min_mask_length]

\* The marker texts of the sanitizer and of the filter.
S == [empty        |-> <<"[", "e", "m", "p", "t", "y", "]">>,
      journal_page |-> <<"[", "j", "o", "u", "r", "n", "a", "l", "_", "p", "a", "g", "e", "]">>,
      mask         |-> <<"*", "*", "*">>,
      content_     |-> <<"[", "c", "o", "n", "t", "e", "n", "t", "_">>,
      datalog_     |-> <<"[", "d", "a", "t", "a", "l", "o", "g", "_", "q", "u", "e", "r", "y", "_">>,
      chars        |-> <<"_", "c", "h", "a", "r", "s", "]">>,
      block_       |-> <<"b", "l", "o", "c", "k", "_">>,
      REDACTED     |-> <<"[", "R", "E", "D", "A", "C", "T", "E", "D", "]">>,
      string_      |-> <<"[", "s", "t", "r", "i", "n", "g", "_">>,
      with_        |-> <<"_", "w", "i", "t", "h", "_">>,
      items        |-> <<"_", "i", "t", "e", "m", "s", "]">>,
      slash_mask   |-> <<"/", "*", "*", "*">>,
      list_with_   |-> <<"[", "l", "i", "s", "t", "_", "w", "i", "t", "h", "_">>,
      pages        |-> <<"_", "p", "a", "g", "e", "s", "]">>,
      results      |-> <<"_", "r", "e", "s", "u", "l", "t", "s", "]">>]

\* A sanitizer that knows no journal shape: every name is masked.
NoJournal(s) == FALSE

\* re.match(r"^\w+\s+\d+\w*,\s+\d{4}$", s).  Each repetition is followed by a
\* character outside its class, so it can only match the longest run: \w+
\* up to the first space, \s+ up to a digit, \d+\w* the whole run of word
\* characters before the comma (which has to start with a digit), \s+ up to
\* the year.  `$` matches at the end and before a final newline.
JournalMatch(s) ==
    \E a \in {RunEnd(s, 1, ReWord, TRUE)} :
    \E b \in {RunEnd(s, a, ReSpace, TRUE)} :
    \E c \in {RunEnd(s, b, ReWord, TRUE)} :
    \E d \in {RunEnd(s, c + 1, ReSpace, TRUE)} :
        /\ a > 1
        /\ b > a
        /\ c > b
        /\ s[b] \in ReDigit
        /\ c <= Len(s)
        /\ s[c] = ","
        /\ d > c + 1
        /\ d + 3 <= Len(s)
        /\ \A k \in d..(d + 3) : s[k] \in ReDigit
        /\ \/ d + 4 = Len(s) + 1
           \/ d + 4 = Len(s) /\ s[d + 4] = "\n"

\* The mask of a name that is neither short nor a journal name.
MaskName(s) ==
    LET n == Len(s)
        visible_chars == IF n \div 4 >= 1 THEN n \div 4 ELSE 1
    IN  IF n <= 8
        THEN <<s[1]>> \o S.mask \o <<s[n]>>
        ELSE SubSeq(s, 1, visible_chars) \o S.mask \o SubSeq(s, n - visible_chars + 1, n)

\* LogSanitizer.sanitize_page_name.  len() of a number raises TypeError, and
\* so does re.match on a value that is not a string.
sanitize_page_name(self, h, name) ==
    IF ~Truthy(h, name) THEN Return(h, StrV(S.empty))
    ELSE IF ~HasLen(name) THEN Raise(h, "TypeError")
    ELSE IF PyLen(h, name) <= self.min_mask_length THEN Return(h, name)
    ELSE IF ~IsStr(name) THEN Raise(h, "TypeError")
    ELSE IF JournalMatch(name.v) THEN Return(h, StrV(S.journal_page))
    ELSE Return(h, StrV(MaskName(name.v)))

\* sanitize_content counting one character too many.
ContentPlusOne(self, h, content) ==
    IF ~Truthy(h, content) THEN Return(h, StrV(S.empty))
    ELSE IF ~HasLen(content) THEN Raise(h, "TypeError")
    ELSE Return(h, StrV(S.content_ \o IntToStr(PyLen(h, content) + 1) \o S.chars))

\* LogSanitizer.sanitize_content
sanitize_content(self, h, content) ==
    IF ~Truthy(h, content) THEN Return(h, StrV(S.empty))
    ELSE IF ~HasLen(content) THEN Raise(h, "TypeError")
    ELSE Return(h, StrV(S.content_ \o IntToStr(PyLen(h, content)) \o S.chars))

\* sanitize_query handing the query back as it came.
QueryEcho(self, h, query) == Return(h, query)

\* LogSanitizer.sanitize_query
sanitize_query(self, h, query) ==
    IF ~Truthy(h, query) THEN Return(h, StrV(S.empty))
    ELSE IF ~HasLen(query) THEN Raise(h, "TypeError")
    ELSE Return(h, StrV(S.datalog_ \o IntToStr(PyLen(h, query)) \o S.chars))

\* str.encode() of an ASCII string: one byte per character.
Encode(s) == [i \in 1..Len(s) |-> Ord(s[i])]

\* hashlib.sha256(bytes).hexdigest() (FIPS 180-4): 64 lower-case
\* hexadecimal characters.  A 32-bit word is the pair <<hi, lo>> of its
\* 16-bit halves, so that no intermediate value leaves the range of the
\* checker's integers.
Sha256Hex(bytes) ==
    LET
        K == <<<<17034, 12184>>, <<28983, 17553>>, <<46528, 64463>>, <<59829, 56229>>,
             <<14678, 49755>>, <<23025, 4593>>, <<37439, 33444>>, <<43804, 24277>>,
             <<55303, 43672>>, <<4739, 23297>>, <<9265, 34238>>, <<21772, 32195>>,
             <<29374, 23924>>, <<32990, 45566>>, <<39900, 1703>>, <<49563, 61812>>,
             <<58523, 27073>>, <<61374, 18310>>, <<4033, 40390>>, <<9228, 41420>>,
             <<11753, 11375>>, <<19060, 33962>>, <<23728, 43484>>, <<30457, 35034>>,
             <<38974, 20818>>, <<43057, 50797>>, <<45059, 10184>>, <<48985, 32711>>,
             <<50912, 3059>>, <<54695, 37191>>, <<1738, 25425>>, <<5161, 10599>>,
             <<10167, 2693>>, <<11803, 8504>>, <<19756, 28156>>, <<21304, 3347>>,
             <<25866, 29524>>, <<30314, 2747>>, <<33218, 51502>>, <<37490, 11397>>,
             <<41663, 59553>>, <<43034, 26187>>, <<49739, 35696>>, <<51052, 20899>>,
             <<53650, 59417>>, <<54937, 1572>>, <<62478, 13701>>, <<4202, 41072>>,
             <<6564, 49430>>, <<7735, 27656>>, <<10056, 30540>>, <<13488, 48309>>,
             <<14620, 3251>>, <<20184, 43594>>, <<23452, 51791>>, <<26670, 28659>>,
             <<29839, 33518>>, <<30885, 25455>>, <<33992, 30740>>, <<36039, 520>>,
             <<37054, 65530>>, <<42064, 27883>>, <<48889, 41975>>, <<50801, 30962>>>>
        H0 == <<<<27145, 58983>>, <<47975, 44677>>, <<15470, 62322>>, <<42319, 62778>>,
              <<20750, 21119>>, <<39685, 26764>>, <<8067, 55723>>, <<23520, 52505>>>>
        \* exclusive or of two 4-bit numbers a and b: Xor4[a + 1][b + 1]
        Xor4 == <<<<0, 1, 2, 3, 4, 5, 6, 7, 8, 9, 10, 11, 12, 13, 14, 15>>,
                 <<1, 0, 3, 2, 5, 4, 7, 6, 9, 8, 11, 10, 13, 12, 15, 14>>,
                 <<2, 3, 0, 1, 6, 7, 4, 5, 10, 11, 8, 9, 14, 15, 12, 13>>,
                 <<3, 2, 1, 0, 7, 6, 5, 4, 11, 10, 9, 8, 15, 14, 13, 12>>,
                 <<4, 5, 6, 7, 0, 1, 2, 3, 12, 13, 14, 15, 8, 9, 10, 11>>,
                 <<5, 4, 7, 6, 1, 0, 3, 2, 13, 12, 15, 14, 9, 8, 11, 10>>,
                 <<6, 7, 4, 5, 2, 3, 0, 1, 14, 15, 12, 13, 10, 11, 8, 9>>,
                 <<7, 6, 5, 4, 3, 2, 1, 0, 15, 14, 13, 12, 11, 10, 9, 8>>,
                 <<8, 9, 10, 11, 12, 13, 14, 15, 0, 1, 2, 3, 4, 5, 6, 7>>,
                 <<9, 8, 11, 10, 13, 12, 15, 14, 1, 0, 3, 2, 5, 4, 7, 6>>,
                 <<10, 11, 8, 9, 14, 15, 12, 13, 2, 3, 0, 1, 6, 7, 4, 5>>,
                 <<11, 10, 9, 8, 15, 14, 13, 12, 3, 2, 1, 0, 7, 6, 5, 4>>,
                 <<12, 13, 14, 15, 8, 9, 10, 11, 4, 5, 6, 7, 0, 1, 2, 3>>,
                 <<13, 12, 15, 14, 9, 8, 11, 10, 5, 4, 7, 6, 1, 0, 3, 2>>,
                 <<14, 15, 12, 13, 10, 11, 8, 9, 6, 7, 4, 5, 2, 3, 0, 1>>,
                 <<15, 14, 13, 12, 11, 10, 9, 8, 7, 6, 5, 4, 3, 2, 1, 0>>>>
        Pow2 == <<1, 2, 4, 8, 16, 32, 64, 128, 256, 512, 1024, 2048, 4096, 8192,
                  16384, 32768, 65536>>
        RECURSIVE Xor(_, _, _)
        Xor(x, y, n) == IF n = 0 THEN 0
                        ELSE Xor4[(x % 16) + 1][(y % 16) + 1]
                             + (16 * Xor(x \div 16, y \div 16, n - 1))
        WXor(a, b) == <<Xor(a[1], b[1], 4), Xor(a[2], b[2], 4)>>
        WAnd(a, b) == <<(a[1] + b[1] - Xor(a[1], b[1], 4)) \div 2,
                        (a[2] + b[2] - Xor(a[2], b[2], 4)) \div 2>>
        WNot(a) == <<65535 - a[1], 65535 - a[2]>>
        WAdd(a, b) == <<(a[1] + b[1] + ((a[2] + b[2]) \div 65536)) % 65536,
                        (a[2] + b[2]) % 65536>>
        \* rotation and shift to the right by n bits, 0 <= n < 32
        RotrLow(a, n) == <<(a[1] \div Pow2[n + 1]) + ((a[2] % Pow2[n + 1]) * Pow2[17 - n]),
                           (a[2] \div Pow2[n + 1]) + ((a[1] % Pow2[n + 1]) * Pow2[17 - n])>>
        Rotr(a, n) == IF n >= 16 THEN RotrLow(<<a[2], a[1]>>, n - 16) ELSE RotrLow(a, n)
        Shr(a, n) == IF n >= 16 THEN <<0, a[1] \div Pow2[n - 15]>>
                     ELSE <<a[1] \div Pow2[n + 1],
                            (a[2] \div Pow2[n + 1]) + ((a[1] % Pow2[n + 1]) * Pow2[17 - n])>>
        Xor3(a, b, c) == WXor(WXor(a, b), c)
        BigSigma0(x) == Xor3(Rotr(x, 2), Rotr(x, 13), Rotr(x, 22))
        BigSigma1(x) == Xor3(Rotr(x, 6), Rotr(x, 11), Rotr(x, 25))
        SmallSigma0(x) == Xor3(Rotr(x, 7), Rotr(x, 18), Shr(x, 3))
        SmallSigma1(x) == Xor3(Rotr(x, 17), Rotr(x, 19), Shr(x, 10))
        Ch(x, y, z) == WXor(WAnd(x, y), WAnd(WNot(x), z))
        Maj(x, y, z) == Xor3(WAnd(x, y), WAnd(x, z), WAnd(y, z))
        \* the message padded to a multiple of 64 bytes: a 1 bit, zeros, and
        \* the length in bits as a 64-bit big-endian number
        Padded == bytes \o <<128>> \o [i \in 1..((55 - Len(bytes)) % 64) |-> 0]
                  \o <<0, 0, 0, 0, ((8 * Len(bytes)) \div 16777216) % 256,
                       ((8 * Len(bytes)) \div 65536) % 256,
                       ((8 * Len(bytes)) \div 256) % 256, (8 * Len(bytes)) % 256>>
        \* the 16 words of the 64-byte block that starts after byte `off`
        Block(m, off) ==
            [i \in 1..16 |-> <<(m[off + (4 * i) - 3] * 256) + m[off + (4 * i) - 2],
                               (m[off + (4 * i) - 1] * 256) + m[off + (4 * i)]>>]
        \* the message schedule, grown from the 16 words of the block to 64
        RECURSIVE Schedule(_)
        Schedule(w) ==
            IF Len(w) = 64 THEN w
            ELSE Schedule(Append(w,
                     WAdd(WAdd(SmallSigma1(w[Len(w) - 1]), w[Len(w) - 6]),
                          WAdd(SmallSigma0(w[Len(w) - 14]), w[Len(w) - 15]))))
        Step(s, t1, t2) ==
            <<WAdd(t1, t2), s[1], s[2], s[3], WAdd(s[4], t1), s[5], s[6], s[7]>>
        Round(s, k, w) ==
            Step(s,
                 WAdd(WAdd(WAdd(s[8], BigSigma1(s[5])), WAdd(Ch(s[5], s[6], s[7]), k)), w),
                 WAdd(BigSigma0(s[1]), Maj(s[1], s[2], s[3])))
        \* the working state before round 1 and after each of the 64 rounds
        RECURSIVE Rounds(_, _)
        Rounds(states, w) ==
            IF Len(states) = 65 THEN states
            ELSE Rounds(Append(states, Round(states[Len(states)], K[Len(states)],
                                             w[Len(states)])), w)
        AddWords(hv, s) == [i \in 1..8 |-> WAdd(hv[i], s[i])]
        Compress(hv, block) == AddWords(hv, Rounds(<<hv>>, Schedule(block))[65])
        RECURSIVE Blocks(_, _, _)
        Blocks(hv, m, off) ==
            IF off >= Len(m) THEN hv ELSE Blocks(Compress(hv, Block(m, off)), m, off + 64)
        HexChars == <<"0", "1", "2", "3", "4", "5", "6", "7", "8", "9",
                      "a", "b", "c", "d", "e", "f">>
        Hex16(x) == <<HexChars[(x \div 4096) + 1], HexChars[((x \div 256) % 16) + 1],
                      HexChars[((x \div 16) % 16) + 1], HexChars[(x % 16) + 1]>>
        Digest(d) == [i \in 1..64 |-> Hex16(d[((i - 1) \div 8) + 1][(((i - 1) \div 4) % 2) + 1])
                                          [((i - 1) % 4) + 1]]
    IN  Digest(Blocks(H0, Padded, 0))

\* sanitize_block_id with a token whose width follows the instance's
\* min_mask_length instead of being fixed.
BlockIdByInstance(self, h, block_id) ==
    IF ~Truthy(h, block_id) THEN Return(h, StrV(S.empty))
    ELSE IF ~IsStr(block_id) THEN Raise(h, "AttributeError")
    ELSE Return(h, StrV(S.block_ \o SubSeq(Sha256Hex(Encode(block_id.v)), 1,
                                           3 + self.min_mask_length)))

\* LogSanitizer.sanitize_block_id.  Only a string has encode().
sanitize_block_id(self, h, block_id) ==
    IF ~Truthy(h, block_id) THEN Return(h, StrV(S.empty))
    ELSE IF ~IsStr(block_id) THEN Raise(h, "AttributeError")
    ELSE Return(h, StrV(S.block_ \o SubSeq(Sha256Hex(Encode(block_id.v)), 1, 6)))

-----------------------------------------------------------------------------
(* re.sub and re.search for the patterns of this program, all of one       *)
(* shape: a literal prefix, an optional opening character class, a         *)
(* captured group ([^...]+ or .+), and an optional closing class.          *)

\* A pattern: prefix, open and close (sets of characters, {} when the pattern
\* has no such class), excl (the characters the group cannot hold) and
\* icase (re.IGNORECASE).
Pattern(prefix, open, excl, close, icase) ==
    [prefix |-> prefix, open |-> open, excl |-> excl, close |-> close, icase |-> icase]

\* The match of pat that starts at index i, or found = FALSE.  The group is
\* greedy, and what follows it is outside the group's class, so the only
\* candidate is the longest run.
MatchAt(s, i, pat) ==
    LET a  == i + Len(pat.prefix)
        gs == IF pat.open = {} THEN a ELSE a + 1
        ge == RunEnd(s, gs, pat.excl, FALSE)
        ok == /\ a - 1 <= Len(s)
              /\ \A k \in 1..Len(pat.prefix) :
                    IF pat.icase THEN LowerChar(s[i + k - 1]) = LowerChar(pat.prefix[k])
                    ELSE s[i + k - 1] = pat.prefix[k]
              /\ pat.open # {} => (a <= Len(s) /\ s[a] \in pat.open)
              /\ ge > gs
              /\ pat.close # {} => (ge <= Len(s) /\ s[ge] \in pat.close)
    IN  IF ok
        THEN [found |-> TRUE, start |-> i, gs |-> gs, ge |-> ge,
              end |-> IF pat.close = {} THEN ge ELSE ge + 1]
        ELSE [found |-> FALSE, start |-> i, gs |-> i, ge |-> i, end |-> i]

\* The non-overlapping matches of pat in s from index i on, leftmost first.
RECURSIVE FindAll(_, _, _)
FindAll(s, i, pat) ==
    IF \A j \in i..Len(s) : ~MatchAt(s, j, pat).found THEN <<>>
    ELSE LET m == MatchAt(s, CHOOSE j \in i..Len(s) :
                                /\ MatchAt(s, j, pat).found
                                /\ \A k \in i..(j - 1) : ~MatchAt(s, k, pat).found, pat)
         IN  <<m>> \o FindAll(s, m.end, pat)

\* s with its k-th match replaced by reps[k]; the text between matches kept.
RECURSIVE Substitute(_, _, _, _, _)
Substitute(s, ms, reps, k, from) ==
    IF k > Len(ms) THEN SubSeq(s, from, Len(s))
    ELSE SubSeq(s, from, ms[k].start - 1) \o reps[k]
         \o Substitute(s, ms, reps, k + 1, ms[k].end)

\* The (pattern, replacement) pairs of sanitize_path, in order.
PathPatterns == <<
    <<Pattern(<<"/", "h", "o", "m", "e", "/">>, {}, {"/"}, {}, TRUE),
      <<"/", "h", "o", "m", "e", "/", "*", "*", "*">> >>,
    <<Pattern(<<"/", "U", "s", "e", "r", "s", "/">>, {}, {"/"}, {}, TRUE),
      <<"/", "U", "s", "e", "r", "s", "/", "*", "*", "*">> >>,
    <<Pattern(<<"C", ":", "\\", "U", "s", "e", "r", "s", "\\">>, {}, {"\\"}, {}, TRUE),
      <<"C", ":", "\\", "U", "s", "e", "r", "s", "\\", "*", "*", "*">> >>,
    <<Pattern(<<"\\", "U", "s", "e", "r", "s", "\\">>, {}, {"\\"}, {}, TRUE),
      <<"\\", "U", "s", "e", "r", "s", "\\", "*", "*", "*">> >>,
    <<Pattern(<<"/", "g", "r", "a", "p", "h", "s", "/">>, {}, {"/"}, {}, TRUE),
      <<"/", "g", "r", "a", "p", "h", "s", "/", "*", "*", "*">> >>,
    <<Pattern(<<"\\", "g", "r", "a", "p", "h", "s", "\\">>, {}, {"\\"}, {}, TRUE),
      <<"\\", "g", "r", "a", "p", "h", "s", "\\", "*", "*", "*">> >> >>

\* The loop of sanitize_path: re.sub of each pattern in turn, from pattern
\* k on, each with its constant replacement.
RECURSIVE ApplyPathPatterns(_, _)
ApplyPathPatterns(s, k) ==
    IF k > Len(PathPatterns) THEN s
    ELSE ApplyPathPatterns(
             Substitute(s, FindAll(s, 1, PathPatterns[k][1]),
                        [n \in 1..Len(s) |-> PathPatterns[k][2]], 1, 1),
             k + 1)

\* LogSanitizer.sanitize_path, for a scalar path (sanitize_dict never hands
\* it a dict or a list).
sanitize_path(self, h, path) ==
    IF ~Truthy(h, path) THEN Return(h, StrV(S.empty))
    ELSE Return(h, StrV(ApplyPathPatterns(PyStrOf(path), 1)))

-----------------------------------------------------------------------------
(* LogSanitizer.sanitize_properties                                        *)

sensitive_keys == {
    <<"p", "a", "s", "s", "w", "o", "r", "d">>, <<"t", "o", "k", "e", "n">>,
    <<"s", "e", "c", "r", "e", "t">>, <<"k", "e", "y">>,
    <<"a", "p", "i", "_", "k", "e", "y">>, <<"e", "m", "a", "i", "l">>,
    <<"p", "h", "o", "n", "e">>, <<"s", "s", "n">>,
    <<"c", "r", "e", "d", "i", "t", "_", "c", "a", "r", "d">> }

partial_keys == { <<"u", "r", "l">>, <<"l", "i", "n", "k">>,
                  <<"w", "e", "b", "s", "i", "t", "e">>, <<"d", "o", "m", "a", "i", "n">> }

\* re.search(r"https?://([^/]+)", value): the leftmost match from index i
\* on, or found = FALSE.
RECURSIVE UrlSearch(_, _)
UrlSearch(s, i) ==
    LET http  == Pattern(<<"h", "t", "t", "p", ":", "/", "/">>, {}, {"/"}, {}, FALSE)
        https == Pattern(<<"h", "t", "t", "p", "s", ":", "/", "/">>, {}, {"/"}, {}, FALSE)
    IN  IF i > Len(s) THEN MatchAt(s, Len(s) + 1, http)
        ELSE IF MatchAt(s, i, http).found THEN MatchAt(s, i, http)
        ELSE IF MatchAt(s, i, https).found THEN MatchAt(s, i, https)
        ELSE UrlSearch(s, i + 1)

\* len(repr(s)) of a string: the quotes, and each character as repr writes it.
ReprStrLen(s) ==
    LET quote == IF "'" \in Range(s) /\ "\"" \notin Range(s) THEN "\"" ELSE "'"
        CharLen(c) == IF c \in {"\\", "\n", "\t", "\r"} \/ c = quote THEN 2
                      ELSE IF c = "\f" THEN 4
                      ELSE 1
        Sum[i \in 0..Len(s)] == IF i = 0 THEN 0 ELSE Sum[i - 1] + CharLen(s[i])
    IN  2 + Sum[Len(s)]

\* len(str(x)) of any value: a list as [a, b], a dict as {'k': v}.
RECURSIVE ReprLen(_, _), ReprSeqLen(_, _, _, _)
ReprLen(h, x) ==
    CASE x.t = "str" -> ReprStrLen(x.v)
      [] x.t \in {"int", "bool", "none"} -> Len(PyStrOf(x))
      [] x.t = "ref" -> 2 + ReprSeqLen(h, h[x.v].v, h[x.v].t = "dict", 1)
ReprSeqLen(h, elems, isDict, i) ==
    IF i > Len(elems) THEN 0
    ELSE (IF i > 1 THEN 2 ELSE 0)
         + (IF isDict THEN ReprStrLen(elems[i][1]) + 2 + ReprLen(h, elems[i][2])
            ELSE ReprLen(h, elems[i]))
         + ReprSeqLen(h, elems, isDict, i + 1)

\* type(x).__name__
TypeName(h, x) == CASE x.t = "str"  -> <<"s", "t", "r">>
                    [] x.t = "int"  -> <<"i", "n", "t">>
                    [] x.t = "bool" -> <<"b", "o", "o", "l">>
                    [] x.t = "none" -> <<"N", "o", "n", "e", "T", "y", "p", "e">>
                    [] x.t = "ref"  -> IF h[x.v].t = "dict" THEN <<"d", "i", "c", "t">>
                                       ELSE <<"l", "i", "s", "t">>

\* The value sanitize_properties stores for one property.
PropertyValue(h, key, value) ==
    IF \E sensitive \in sensitive_keys : Contains(Lower(key), sensitive)
    THEN StrV(S.REDACTED)
    ELSE IF \E partial \in partial_keys : Contains(Lower(key), partial)
    THEN IF IsStr(value) /\ Len(value.v) > 10
         THEN IF UrlSearch(value.v, 1).found
              THEN StrV(SubSeq(value.v, UrlSearch(value.v, 1).gs, UrlSearch(value.v, 1).ge - 1)
                        \o S.slash_mask)
              ELSE StrV(SubSeq(value.v, 1, 10) \o S.mask)
         ELSE value
    ELSE IF IsStr(value) /\ Len(value.v) > 50
    THEN StrV(S.string_ \o IntToStr(Len(value.v)) \o S.chars)
    ELSE IF value.t = "ref" /\ ReprLen(h, value) > 100
    THEN StrV(<<"[">> \o TypeName(h, value) \o S.with_
              \o IntToStr(Len(h[value.v].v)) \o S.items)
    ELSE value

\* LogSanitizer.sanitize_properties: a new dict; only a dict has items().
sanitize_properties(self, h, properties) ==
    IF ~Truthy(h, properties) THEN Return(Append(h, DictObj(<<>>)), RefV(Len(h) + 1))
    ELSE IF ~IsDict(h, properties) THEN Raise(h, "AttributeError")
    ELSE Return(Append(h, DictObj([i \in 1..Len(h[properties.v].v) |->
                    <<h[properties.v].v[i][1],
                      PropertyValue(h, h[properties.v].v[i][1], h[properties.v].v[i][2])>>])),
                RefV(Len(h) + 1))

-----------------------------------------------------------------------------
(* LogSanitizer.sanitize_dict                                              *)

\* The keys the rules and the filter name.
K == [page_name     |-> <<"p", "a", "g", "e", "_", "n", "a", "m", "e">>,
      page          |-> <<"p", "a", "g", "e">>,
      name          |-> <<"n", "a", "m", "e">>,
      content       |-> <<"c", "o", "n", "t", "e", "n", "t">>,
      block_content |-> <<"b", "l", "o", "c", "k", "_", "c", "o", "n", "t", "e", "n", "t">>,
      path          |-> <<"p", "a", "t", "h">>,
      file_path     |-> <<"f", "i", "l", "e", "_", "p", "a", "t", "h">>,
      properties    |-> <<"p", "r", "o", "p", "e", "r", "t", "i", "e", "s">>,
      query         |-> <<"q", "u", "e", "r", "y">>,
      block_id      |-> <<"b", "l", "o", "c", "k", "_", "i", "d">>,
      uuid          |-> <<"u", "u", "i", "d">>,
      originalName  |-> <<"o", "r", "i", "g", "i", "n", "a", "l", "N", "a", "m", "e">>,
      pages         |-> <<"p", "a", "g", "e", "s">>,
      results       |-> <<"r", "e", "s", "u", "l", "t", "s">>]

\* The default rules: key -> the method name without its sanitize_ prefix.
DefaultRules == <<
    <<K.page_name, "page_name">>, <<K.page, "page_name">>, <<K.name, "page_name">>,
    <<K.content, "content">>, <<K.block_content, "content">>,
    <<K.path, "path">>, <<K.file_path, "path">>,
    <<K.properties, "properties">>, <<K.query, "query">>,
    <<K.block_id, "block_id">>, <<K.uuid, "block_id">> >>

\* hasattr(self, "sanitize_" + name)
MethodNames == {"page_name", "content", "block_id", "path", "properties", "query", "dict"}

\* getattr(self, "sanitize_" + name)(value), for the scalar value that
\* sanitize_dict hands to a rule; sanitize_dict itself, named by a rule,
\* asks a scalar for its items().
CallMethod(self, h, name, value) ==
    CASE name = "page_name"  -> sanitize_page_name(self, h, value)
      [] name = "content"    -> sanitize_content(self, h, value)
      [] name = "block_id"   -> sanitize_block_id(self, h, value)
      [] name = "path"       -> sanitize_path(self, h, value)
      [] name = "properties" -> sanitize_properties(self, h, value)
      [] name = "query"      -> sanitize_query(self, h, value)
      [] name = "dict"       -> Raise(h, "AttributeError")

RECURSIVE sanitize_dict(_, _, _, _)
RECURSIVE SanitizeItems(_, _, _, _, _)
RECURSIVE SanitizeElements(_, _, _, _, _)

\* One pass of the loop body: what is stored under `key` for `value`.
SanitizeValue(self, h, rules, key, value) ==
    IF HasKey(rules, key) /\ value.t # "ref"
    THEN IF GetItem(rules, key) \in MethodNames
         THEN CallMethod(self, h, GetItem(rules, key), value)
         ELSE Return(h, value)
    ELSE IF IsDict(h, value)
    THEN sanitize_dict(self, h, value, rules)
    ELSE IF IsList(h, value) /\ Len(h[value.v].v) > 0
    THEN IF IsDict(h, h[value.v].v[1])
         THEN SanitizeElements(self, rules, h[value.v].v, 1, Return(h, <<>>))
         ELSE Return(h, StrV(S.list_with_ \o IntToStr(Len(h[value.v].v)) \o S.items))
    ELSE IF value.t \in {"str", "int", "bool", "none"}
    THEN Return(h, value)
    ELSE Return(h, StrV(<<"[">> \o TypeName(h, value) \o <<"]">>))

\* sanitized[key] = r.v for the outcome r of SanitizeValue, `sanitized`
\* being the dict under construction; an exception leaves the loop.
StoreItem(sanitized, key, r) ==
    IF r.exc # "none" THEN r
    ELSE Return([r.h EXCEPT ![sanitized.v].v = SetItem(@, key, r.v)], sanitized)

\* The loop `for key, value in data.items()` from item i on; st is the
\* outcome so far, st.v the dict under construction.
SanitizeItems(self, rules, items, i, st) ==
    IF st.exc # "none" \/ i > Len(items) THEN st
    ELSE SanitizeItems(self, rules, items, i + 1,
             StoreItem(st.v, items[i][1],
                       SanitizeValue(self, st.h, rules, items[i][1], items[i][2])))

\* One more element of the comprehension: r is the outcome of sanitize_dict
\* on it, `done` the elements before it.
AppendElement(done, r) == IF r.exc # "none" THEN r ELSE Return(r.h, Append(done, r.v))

\* The comprehension [self.sanitize_dict(item, rules) for item in value]
\* from element i on; st.v holds the elements done, and the list is built
\* when every element is done.
SanitizeElements(self, rules, elems, i, st) ==
    IF st.exc # "none" THEN st
    ELSE IF i > Len(elems) THEN Return(Append(st.h, ListObj(st.v)), RefV(Len(st.h) + 1))
    ELSE SanitizeElements(self, rules, elems, i + 1,
             AppendElement(st.v, sanitize_dict(self, st.h, elems[i], rules)))

\* LogSanitizer.sanitize_dict.  `rules` is the item sequence of the rules
\* mapping, <<>> for None.  data.items() exists only on a dict.
sanitize_dict(self, h, data, rules) ==
    IF ~IsDict(h, data) THEN Raise(h, "AttributeError")
    ELSE SanitizeItems(self, IF Len(rules) = 0 THEN DefaultRules ELSE rules,
                       h[data.v].v, 1, Return(Append(h, DictObj(<<>>)), RefV(Len(h) + 1)))

-----------------------------------------------------------------------------
(* Building and copying JSON-like values.                                  *)

\* The object at address y with one more child: the outcome r of building
\* the child, under `key` in a dict (key is <<k>>) or appended to a list
\* (key is <<>>).
Attach(y, key, r) ==
    [r.h EXCEPT ![y].v = Append(@, IF key = <<>> THEN r.v ELSE <<key[1], r.v>>)]

\* The tree x built on the heap h, as its owner builds it: a new object for
\* every dict and list, the scalars shared.
RECURSIVE Alloc(_, _)
RECURSIVE AllocChildren(_, _, _, _)
Alloc(h, x) ==
    IF x.t \notin {"dict", "list"} THEN Return(h, x)
    ELSE AllocChildren(Append(h, [t |-> x.t, v |-> <<>>]), x, 1, Len(h) + 1)
AllocChildren(h, x, i, y) ==
    IF i > Len(x.v) THEN Return(h, RefV(y))
    ELSE AllocChildren(IF h[y].t = "dict"
                       THEN Attach(y, <<x.v[i][1]>>, Alloc(h, x.v[i][2]))
                       ELSE Attach(y, <<>>, Alloc(h, x.v[i])),
                       x, i + 1, y)

\* copy.deepcopy of a JSON-like value: scalars are shared, every dict and
\* list is built anew.  The values copied here are trees, so the memo of
\* deepcopy never finds an object twice.
DeepCopy(h, x) == Alloc(h, Deref(h, x))

-----------------------------------------------------------------------------
(* PrivacyFilter (logging_config.py)                                       *)

\* logging.DEBUG, INFO, WARNING, ERROR
DEBUG == 10
INFO == 20
WARNING == 30
ERROR == 40

\* LoggingMode
PRIVACY == "privacy"
DEBUG_MODE == "debug"
MINIMAL == "minimal"

\* LogSanitizer's default min_mask_length.
DefaultMinMaskLength == 3

\* PrivacyFilter.__init__
PrivacyFilter(mode) == [mode |-> mode, sanitizer |-> LogSanitizer(DefaultMinMaskLength)]

\* The (pattern, replacement) list of filter(): each replacement is head,
\* then the sanitizer method applied to group 1, then tail.
MessagePatterns ==
    LET Quotes == {"'", "\""}
        page == <<"p", "a", "g", "e", ":", " ">>
        getting == <<"G", "e", "t", "t", "i", "n", "g", " ", "p", "a", "g", "e", ":", " ">>
        creating == <<"C", "r", "e", "a", "t", "i", "n", "g", " ", "p", "a", "g", "e", ":", " ">>
        searching == <<"S", "e", "a", "r", "c", "h", "i", "n", "g", " ", "p", "a", "g", "e",
                       "s", " ", "w", "i", "t", "h", " ", "q", "u", "e", "r", "y", ":", " ">>
        executing == <<"E", "x", "e", "c", "u", "t", "i", "n", "g", " ", "D", "a", "t", "a",
                       "l", "o", "g", " ", "q", "u", "e", "r", "y", ":", " ">>
    IN  << [pat |-> Pattern(page, Quotes, Quotes, Quotes, FALSE),
            head |-> page \o <<"'">>, method |-> "page_name", tail |-> <<"'">>],
           [pat |-> Pattern(getting, {}, Quotes, {}, FALSE),
            head |-> getting, method |-> "page_name", tail |-> <<>>],
           [pat |-> Pattern(creating, {}, Quotes, {}, FALSE),
            head |-> creating, method |-> "page_name", tail |-> <<>>],
           [pat |-> Pattern(searching, {}, {"\n"}, {}, FALSE),
            head |-> searching, method |-> "query", tail |-> <<>>],
           [pat |-> Pattern(executing, {}, {"\n"}, {}, FALSE),
            head |-> executing, method |-> "query", tail |-> <<>>] >>

\* The replacement callbacks: what replaces the match m of the entry p of
\* MessagePatterns in msg.
Replacement(sanitizer, msg, p, m) ==
    p.head
    \o (IF p.method = "page_name"
        THEN sanitize_page_name(sanitizer, <<>>, StrV(SubSeq(msg, m.gs, m.ge - 1)))
        ELSE sanitize_query(sanitizer, <<>>, StrV(SubSeq(msg, m.gs, m.ge - 1)))).v.v
    \o p.tail

\* The loop over the patterns, from pattern k on:
\* record.msg = re.sub(pattern, replacement, record.msg).
RECURSIVE SanitizeMessage(_, _, _)
SanitizeMessage(sanitizer, msg, k) ==
    IF k > Len(MessagePatterns) THEN msg
    ELSE SanitizeMessage(sanitizer,
             LET ms == FindAll(msg, 1, MessagePatterns[k].pat)
             IN  Substitute(msg, ms,
                            [n \in 1..Len(ms) |->
                                Replacement(sanitizer, msg, MessagePatterns[k], ms[n])],
                            1, 1),
             k + 1)

\* filter() without its deep copies: the caller's object itself is handed on.
NoCopy(h, x) == Return(h, x)

\* copy.deepcopy as filter() calls it on `arguments` and on `result`.
CopyOf(h, x) == DeepCopy(h, x)

\* What filter() gives back: its return value, or the exception it raised,
\* the record as it left it, and the heap.
FilterResult(ret, exc, record, h) == [ret |-> ret, exc |-> exc, record |-> record, h |-> h]

\* setattr(record, field, r.v) for the outcome r of a call; an exception of
\* the call leaves filter().
SetField(st, field, r) ==
    IF r.exc # "none" THEN FilterResult(FALSE, r.exc, st.record, r.h)
    ELSE FilterResult(TRUE, "none", [st.record EXCEPT ![field] = r.v], r.h)

\* The message step of filter().
SanitizeMsg(self, st) ==
    IF IsStr(st.record.msg)
    THEN [st EXCEPT !.record.msg = StrV(SanitizeMessage(self.sanitizer, st.record.msg.v, 1))]
    ELSE st

\* The `arguments` step of filter(): the copy is attached, then what
\* sanitize_dict makes of the copy.
SanitizeCopiedArguments(self, st) ==
    IF st.exc # "none" THEN st
    ELSE SetField(st, "arguments",
                  sanitize_dict(self.sanitizer, st.h, st.record.arguments, <<>>))
SanitizeArguments(self, st) ==
    IF st.record.arguments.t = "absent" \/ ~Truthy(st.h, st.record.arguments) THEN st
    ELSE SanitizeCopiedArguments(self,
             SetField(st, "arguments", CopyOf(st.h, st.record.arguments)))

\* result["page"]["originalName"] = n.v for the outcome n of
\* sanitize_page_name, page being the address of result["page"].
StoreOriginalName(st, page, n) ==
    IF n.exc # "none" THEN FilterResult(FALSE, n.exc, st.record, st.h)
    ELSE [st EXCEPT !.h[page].v = SetItem(@, K.originalName, n.v)]

\* The count marker of sanitize_dict, "_items]", written for every list.
CountItems(st, key, suffix) ==
    LET items == st.h[st.record.result.v].v
    IN  IF st.exc = "none" /\ HasKey(items, key) /\ IsList(st.h, GetItem(items, key))
        THEN [st EXCEPT !.h[st.record.result.v].v =
                 SetItem(@, key, StrV(S.list_with_
                                      \o IntToStr(Len(st.h[GetItem(items, key).v].v))
                                      \o S.items))]
        ELSE st

\* result[key] replaced by a count marker when it is a list.
CountList(st, key, suffix) ==
    LET items == st.h[st.record.result.v].v
    IN  IF st.exc = "none" /\ HasKey(items, key) /\ IsList(st.h, GetItem(items, key))
        THEN [st EXCEPT !.h[st.record.result.v].v =
                 SetItem(@, key, StrV(S.list_with_
                                      \o IntToStr(Len(st.h[GetItem(items, key).v].v))
                                      \o suffix))]
        ELSE st

\* The `result` step of filter(): the copy is attached and changed in place.
SanitizeCopiedResult(self, st) ==
    LET items == st.h[st.record.result.v].v
    IN  IF st.exc # "none" THEN st
        ELSE CountList(
                 CountList(
                     IF /\ HasKey(items, K.page)
                        /\ IsDict(st.h, GetItem(items, K.page))
                        /\ HasKey(st.h[GetItem(items, K.page).v].v, K.originalName)
                     THEN StoreOriginalName(st, GetItem(items, K.page).v,
                              sanitize_page_name(self.sanitizer, st.h,
                                  GetItem(st.h[GetItem(items, K.page).v].v, K.originalName)))
                     ELSE st,
                     K.pages, S.pages),
                 K.results, S.results)
SanitizeResult(self, st) ==
    IF st.exc # "none" \/ st.record.result.t = "absent" \/ ~IsDict(st.h, st.record.result)
    THEN st
    ELSE SanitizeCopiedResult(self, SetField(st, "result", CopyOf(st.h, st.record.result)))

\* A filter that sanitizes in every mode.
AnyMode(self) == TRUE

\* The guard of the sanitizing branch of filter().
IsPrivacy(self) == self.mode = PRIVACY

\* PrivacyFilter.filter
PrivacyFilter_filter(self, h, record) ==
    IF self.mode = MINIMAL /\ record.levelno < WARNING
    THEN FilterResult(FALSE, "none", record, h)
    ELSE IF IsPrivacy(self)
    THEN SanitizeResult(self,
             SanitizeArguments(self,
                 SanitizeMsg(self, FilterResult(TRUE, "none", record, h))))
    ELSE FilterResult(TRUE, "none", record, h)

\* StderrFilter.filter
StderrFilter_filter(record) == record.levelno >= ERROR

-----------------------------------------------------------------------------
(* Inputs.  A JSON-like value is written as a tree (DictObj / ListObj      *)
(* holding their children); Alloc builds it on the heap the way the caller *)
(* builds it before it logs.                                               *)

\* Messages: handle_call_tool, log_tool_invocation, LogseqClient.get_page,
\* handle_create_page, search, the message of the documented scenario, and
\* a message with a page name in double quotes.
Msg == [
    started |-> StrV(<<"T", "o", "o", "l", " ", "i", "n", "v", "o", "c", "a", "t", "i", "o",
        "n", " ", "s", "t", "a", "r", "t", "e", "d", ":", " ", "g", "e", "t", "_", "p", "a",
        "g", "e">>),
    completed |-> StrV(<<"T", "o", "o", "l", " ", "g", "e", "t", "_", "p", "a", "g", "e",
        " ", "c", "o", "m", "p", "l", "e", "t", "e", "d", " ", "s", "u", "c", "c", "e", "s",
        "s", "f", "u", "l", "l", "y">>),
    quoted |-> StrV(<<"G", "e", "t", "t", "i", "n", "g", " ", "p", "a", "g", "e", ":", " ",
        "'", "J", "u", "l", " ", "1", "s", "t", ",", " ", "2", "0", "2", "4", "'">>),
    creating |-> StrV(<<"C", "r", "e", "a", "t", "i", "n", "g", " ", "p", "a", "g", "e",
        ":", " ", "D", "i", "a", "r", "y">>),
    getting |-> StrV(<<"G", "e", "t", "t", "i", "n", "g", " ", "p", "a", "g", "e", ":", " ",
        "M", "y", " ", "S", "e", "c", "r", "e", "t", " ", "P", "l", "a", "n">>),
    search |-> StrV(<<"S", "e", "a", "r", "c", "h", "i", "n", "g", " ", "p", "a", "g", "e",
        "s", " ", "w", "i", "t", "h", " ", "q", "u", "e", "r", "y", ":", " ", "t", "a", "g",
        " ", "s", "e", "c", "r", "e", "t">>),
    double |-> StrV(<<"O", "p", "e", "n", "e", "d", " ", "p", "a", "g", "e", ":", " ",
        "\"", "M", "y", " ", "D", "i", "a", "r", "y", "\"", " ", "t", "o", "d", "a",
        "y">>) ]

\* Tool arguments, as trees.
Args == [
    scenario |-> DictObj(<<<<<<"p", "a", "g", "e", "_", "n", "a", "m", "e">>, StrV(<<"M",
        "y", " ", "S", "e", "c", "r", "e", "t", " ", "P", "l", "a", "n">>)>>, <<<<"c", "o",
        "n", "t", "e", "n", "t">>, StrV(<<"t", "w", "e", "n", "t", "y", " ", "c", "h", "a",
        "r", " ", "s", "t", "r", "i", "n", "g", "!", "!">>)>>>>),
    nested |-> DictObj(<<<<<<"p", "a", "g", "e", "_", "n", "a", "m", "e">>, StrV(<<"M", "y",
        " ", "P", "r", "i", "v", "a", "t", "e", " ", "P", "a", "g", "e">>)>>, <<<<"c", "o",
        "n", "t", "e", "n", "t">>, StrV(<<"S", "e", "c", "r", "e", "t", " ", "c", "o", "n",
        "t", "e", "n", "t">>)>>, <<<<"n", "e", "s", "t", "e", "d">>, DictObj(<<<<<<"p", "a",
        "t", "h">>, StrV(<<"/", "h", "o", "m", "e", "/", "u", "s", "e", "r", "/", "d", "o",
        "c", "u", "m", "e", "n", "t", "s">>)>>>>)>>>>),
    deep |-> DictObj(<<<<<<"l", "e", "v", "e", "l", "1">>, DictObj(<<<<<<"l", "e", "v", "e",
        "l", "2">>, DictObj(<<<<<<"l", "e", "v", "e", "l", "3">>, DictObj(<<<<<<"p", "a",
        "g", "e", "_", "n", "a", "m", "e">>, StrV(<<"D", "e", "e", "p", " ", "S", "e", "c",
        "r", "e", "t">>)>>, <<<<"i", "t", "e", "m", "s">>, ListObj(<<StrV(<<"a">>),
        StrV(<<"b">>), StrV(<<"c">>)>>)>>>>)>>>>)>>>>)>>>>),
    number_name |-> DictObj(<<<<<<"n", "a", "m", "e">>, IntV(5)>>>>),
    mixed_list |-> DictObj(<<<<<<"i", "t", "e", "m", "s">>, ListObj(<<DictObj(<<<<<<"a">>,
        IntV(1)>>>>), IntV(2)>>)>>>>),
    empty |-> DictObj(<<>>),
    block |-> DictObj(<<<<<<"u", "u", "i", "d">>, StrV(<<"1", "2", "3", "-", "4", "5", "6",
        "-", "7", "8", "9">>)>>, <<<<"q", "u", "e", "r", "y">>, StrV(<<"(", "f", "i", "n",
        "d", " ", "?", "b", ")">>)>>>>),
    bool_content |-> DictObj(<<<<<<"c", "o", "n", "t", "e", "n", "t">>, BoolV(TRUE)>>>>),
    properties |-> DictObj(<<<<<<"c", "o", "n", "t", "e", "n", "t">>, StrV(<<"N", "o", "t",
        "e">>)>>, <<<<"p", "r", "o", "p", "e", "r", "t", "i", "e", "s">>,
        DictObj(<<<<<<"p", "a", "s", "s", "w", "o", "r", "d">>, StrV(<<"h", "u", "n", "t",
        "e", "r", "2">>)>>, <<<<"s", "t", "a", "t", "u", "s">>, StrV(<<"o", "p", "e",
        "n">>)>>>>)>>>>) ]

\* Tool results, as trees.
Res == [
    page |-> DictObj(<<<<<<"p", "a", "g", "e">>, DictObj(<<<<<<"o", "r", "i", "g", "i", "n",
        "a", "l", "N", "a", "m", "e">>, StrV(<<"M", "y", " ", "S", "e", "c", "r", "e", "t",
        " ", "P", "a", "g", "e">>)>>, <<<<"u", "u", "i", "d">>, StrV(<<"1", "2", "3", "-",
        "4", "5", "6", "-", "7", "8", "9">>)>>, <<<<"p", "r", "o", "p", "e", "r", "t", "i",
        "e", "s">>, DictObj(<<<<<<"k", "e", "y">>, StrV(<<"v", "a", "l", "u",
        "e">>)>>>>)>>>>)>>, <<<<"p", "a", "g", "e", "s">>, ListObj(<<StrV(<<"p", "a", "g",
        "e", "1">>), StrV(<<"p", "a", "g", "e", "2">>), StrV(<<"p", "a", "g", "e",
        "3">>)>>)>>, <<<<"r", "e", "s", "u", "l", "t", "s">>, ListObj(<<DictObj(<<<<<<"i",
        "d">>, IntV(1)>>>>), DictObj(<<<<<<"i", "d">>, IntV(2)>>>>)>>)>>>>),
    string |-> StrV(<<"s", "t", "r", "i", "n", "g", " ", "r", "e", "s", "u", "l", "t">>),
    blocks |-> DictObj(<<<<<<"s", "u", "c", "c", "e", "s", "s">>, BoolV(TRUE)>>, <<<<"b",
        "l", "o", "c", "k", "s">>, ListObj(<<DictObj(<<<<<<"c", "o", "n", "t", "e", "n",
        "t">>, StrV(<<"S", "e", "c", "r", "e", "t", " ", "b", "l", "o", "c",
        "k">>)>>>>)>>)>>>>),
    odd |-> DictObj(<<<<<<"p", "a", "g", "e">>, StrV(<<"H", "o", "m", "e">>)>>,
        <<<<"p", "a", "g", "e", "s">>, IntV(3)>>,
        <<<<"r", "e", "s", "u", "l", "t", "s">>, ListObj(<<>>)>>,
        <<<<"t", "o", "t", "a", "l">>, IntV(2)>>>>),
    found |-> DictObj(<<<<<<"s", "u", "c", "c", "e", "s", "s">>, BoolV(TRUE)>>, <<<<"p",
        "a", "g", "e">>, DictObj(<<<<<<"n", "a", "m", "e">>, StrV(<<"M", "y", " ", "S", "e",
        "c", "r", "e", "t", " ", "P", "a", "g", "e">>)>>, <<<<"o", "r", "i", "g", "i", "n",
        "a", "l", "N", "a", "m", "e">>, StrV(<<"M", "y", " ", "S", "e", "c", "r", "e", "t",
        " ", "P", "a", "g", "e">>)>>>>)>>, <<<<"b", "l", "o", "c", "k", "s">>,
        ListObj(<<DictObj(<<<<<<"c", "o", "n", "t", "e", "n", "t">>, StrV(<<"S", "e", "c",
        "r", "e", "t", " ", "b", "l", "o", "c", "k">>)>>>>)>>)>>>>) ]

\* The logging calls: message, `arguments` and `result` of the record.
LogInputs == {
    [msg |-> Msg.getting,   arguments |-> Args.scenario,     result |-> Absent],
    [msg |-> Msg.started,   arguments |-> Args.nested,       result |-> Absent],
    [msg |-> Msg.started,   arguments |-> Args.deep,         result |-> Absent],
    [msg |-> Msg.started,   arguments |-> Args.number_name,  result |-> Absent],
    [msg |-> Msg.started,   arguments |-> Args.mixed_list,   result |-> Absent],
    [msg |-> Msg.started,   arguments |-> Args.empty,        result |-> Absent],
    [msg |-> Msg.started,   arguments |-> Args.properties,   result |-> Absent],
    [msg |-> Msg.completed, arguments |-> Args.nested,       result |-> Res.page],
    [msg |-> Msg.completed, arguments |-> Args.empty,        result |-> Res.string],
    [msg |-> Msg.completed, arguments |-> Args.scenario,     result |-> NoneV],
    [msg |-> Msg.completed, arguments |-> Args.bool_content, result |-> Res.blocks],
    [msg |-> Msg.quoted,    arguments |-> Absent,            result |-> Absent],
    [msg |-> Msg.creating,  arguments |-> Absent,            result |-> Absent],
    [msg |-> Msg.double,    arguments |-> Absent,            result |-> Absent],
    [msg |-> Msg.search,    arguments |-> Absent,            result |-> Res.page],
    [msg |-> Msg.completed, arguments |-> Args.empty,        result |-> Res.odd],
    [msg |-> Msg.completed, arguments |-> Args.empty,        result |-> Res.found] }

Levels == {DEBUG, INFO, WARNING, ERROR}
LoggingModes == {PRIVACY, DEBUG_MODE, MINIMAL}

\* The mappings handed to sanitize_dict directly: the trees above, and
\* one-item mappings of a key to a scalar.
DictInputs ==
    {Args.scenario, Args.nested, Args.deep, Args.mixed_list, Args.empty, Args.block,
     Res.page, Res.blocks}
    \cup {DictObj(<<<<k, x>>>>) :
            k \in {K.name, K.content, K.path, K.properties, K.query,
                   <<"o", "t", "h", "e", "r">>},
            x \in {StrV(<<>>), StrV(<<"a", "b", "c">>), IntV(0), IntV(5),
                   BoolV(TRUE), BoolV(FALSE), NoneV}}

\* Rule sets: None (the default rules), and a caller's own mapping, one of
\* whose rules names a method the sanitizer does not have.
RuleSets == {<<>>, << <<K.name, "content">>, <<K.content, "nosuch">>, <<K.path, "query">> >>}

-----------------------------------------------------------------------------
(* The logging pipeline installed by setup_logging.                        *)

\* JSONFormatter.format: a field is written when the record has it and it
\* is not None.
ExtraField(h, x) == IF x.t \in {"absent", "none"} THEN Absent ELSE Deref(h, x)

\* What a sink writes for a record: the JSON formatter writes the message
\* and the extra fields, the console formatter the message only.
Format(formatter, h, record) ==
    IF formatter = "json"
    THEN [message |-> PyStrOf(record.msg),
          arguments |-> ExtraField(h, record.arguments),
          result |-> ExtraField(h, record.result)]
    ELSE [message |-> PyStrOf(record.msg), arguments |-> Absent, result |-> Absent]

\* setup_logging: the root level, the one PrivacyFilter instance, and the
\* root logger's handlers in the order they are added: file, stderr, and
\* stdout with the debug flag or in debug mode.
setup_logging(log_level, mode, debug) ==
    [level |-> log_level,
     privacy_filter |-> PrivacyFilter(mode),
     handlers |->
        << [name |-> "file", level |-> DEBUG, filters |-> <<"PrivacyFilter">>,
            formatter |-> "json"],
           [name |-> "stderr", level |-> ERROR,
            filters |-> <<"StderrFilter", "PrivacyFilter">>, formatter |-> "console"] >>
        \o (IF debug \/ mode = DEBUG_MODE
            THEN << [name |-> "stdout", level |-> DEBUG,
                     filters |-> IF mode # DEBUG_MODE THEN <<"PrivacyFilter">> ELSE <<>>,
                     formatter |-> "console"] >>
            ELSE <<>>)]

\* The state of Filterer.filter after one more PrivacyFilter.filter call
\* with outcome f; `log` collects what each call did.
Logged(st, f) ==
    [ret |-> f.ret /\ f.exc = "none", exc |-> f.exc, record |-> f.record, h |-> f.h,
     log |-> Append(st.log,
                    [levelno |-> st.record.levelno,
                     outcome |-> IF f.exc # "none" THEN "raised"
                                 ELSE IF f.ret THEN "True" ELSE "False"])]

\* Filterer.filter: the handler's filters in order from filter i on,
\* stopping at the first that rejects; an exception of a filter leaves
\* through handle().
RECURSIVE RunFilters(_, _, _, _)
RunFilters(fs, i, pf, st) ==
    IF i > Len(fs) \/ ~st.ret \/ st.exc # "none" THEN st
    ELSE RunFilters(fs, i + 1, pf,
             IF fs[i] = "StderrFilter"
             THEN [st EXCEPT !.ret = StderrFilter_filter(st.record)]
             ELSE Logged(st, PrivacyFilter_filter(pf, st.h, st.record)))

NoRecord == [levelno |-> 0, msg |-> NoneV, arguments |-> Absent, result |-> Absent]
NoCall == [method |-> "none", self |-> LogSanitizer(DefaultMinMaskLength),
           arg |-> NoneV, rules |-> <<>>]
NoOut == [exc |-> "none", v |-> NoneV]

VARIABLES
    privacy_filter,  \* the PrivacyFilter instance shared by the handlers
    env_debug,       \* LOGSEQ_MCP_DEBUG
    root_level,      \* the root logger's level
    handlers,        \* the root logger's handlers
    pc,              \* "idle", "handling", "returned", "raised"
    hi,              \* callHandlers: index of the next handler
    heap,            \* the dict and list objects
    heap0,           \* the heap when the caller made its call
    record0,         \* the record as the caller's call created it
    record,          \* the record, as the filters have left it
    emitted,         \* what each sink has written
    exc,             \* the exception that left the call
    filterLog,       \* each PrivacyFilter.filter call: level and outcome
    call,            \* the direct sanitizer call made last
    out,             \* what it gave back
    tokens,          \* sanitize_block_id calls so far: instance, id, token
    settings,        \* the settings the last setup_logging call resolved
    logseq_client,   \* the server's client, None until it is initialized
    events           \* what the server has done so far, in order

vars == <<privacy_filter, env_debug, root_level, handlers, pc, hi, heap, heap0,
          record0, record, emitted, exc, filterLog, call, out, tokens, settings,
          logseq_client, events>>

config == <<privacy_filter, env_debug, root_level, handlers, settings, logseq_client>>

\* setup_logging has run with the given level, mode and debug flag, and no
\* call has been made since.
Configured(log_level, mode, debug) ==
    /\ privacy_filter = setup_logging(log_level, mode, debug).privacy_filter
    /\ env_debug = debug
    /\ root_level = setup_logging(log_level, mode, debug).level
    /\ handlers = setup_logging(log_level, mode, debug).handlers
    /\ settings = [level |-> log_level, mode |-> mode, debug |-> debug]
    /\ logseq_client = NoneV
    /\ events = <<>>
    /\ pc = "idle"
    /\ hi = 1
    /\ heap = <<>>
    /\ heap0 = <<>>
    /\ record0 = NoRecord
    /\ record = NoRecord
    /\ emitted = <<>>
    /\ exc = "none"
    /\ filterLog = <<>>
    /\ call = NoCall
    /\ out = NoOut
    /\ tokens = <<>>

\* After setup_logging, for each mode, debug flag and log level of the
\* environment.
Init ==
    \E mode \in LoggingModes, debug \in BOOLEAN, log_level \in {DEBUG, INFO} :
        Configured(log_level, mode, debug)

\* logger.debug/info/warning/error(msg, extra={...}): the caller has built
\* its arguments and result; the record is created when the level is
\* enabled, and then handed to the handlers.
LogCall ==
    /\ pc = "idle"
    /\ \E inp \in LogInputs, levelno \in Levels :
       \E a \in {Alloc(<<>>, inp.arguments)} :
       \E r \in {Alloc(a.h, inp.result)} :
          /\ heap' = r.h
          /\ heap0' = r.h
          /\ record0' = [levelno |-> levelno, msg |-> inp.msg,
                         arguments |-> a.v, result |-> r.v]
          /\ record' = record0'
          /\ pc' = IF levelno >= root_level THEN "handling" ELSE "returned"
    /\ hi' = 1
    /\ UNCHANGED <<config, events, emitted, exc, filterLog, call, out, tokens>>

\* One pass of the loop of callHandlers: the level check, Handler.handle's
\* filters, and emit.
Handler_handle ==
    /\ pc = "handling"
    /\ hi <= Len(handlers)
    /\ IF record.levelno < handlers[hi].level
       THEN /\ hi' = hi + 1
            /\ UNCHANGED <<pc, heap, record, emitted, exc, filterLog>>
       ELSE \E f \in {RunFilters(handlers[hi].filters, 1, privacy_filter,
                                 [ret |-> TRUE, exc |-> "none", record |-> record,
                                  h |-> heap, log |-> <<>>])} :
                /\ heap' = f.h
                /\ record' = f.record
                /\ filterLog' = filterLog \o f.log
                /\ IF f.exc # "none"
                   THEN /\ pc' = "raised"
                        /\ exc' = f.exc
                        /\ UNCHANGED <<hi, emitted>>
                   ELSE /\ hi' = hi + 1
                        /\ emitted' = IF f.ret
                                      THEN Append(emitted,
                                               [handler |-> handlers[hi].name,
                                                out |-> Format(handlers[hi].formatter,
                                                               f.h, f.record)])
                                      ELSE emitted
                        /\ UNCHANGED <<pc, exc>>
    /\ UNCHANGED <<config, events, heap0, record0, call, out, tokens>>

\* Every handler has had the record: the logging call returns.
LogReturn ==
    /\ pc = "handling"
    /\ hi > Len(handlers)
    /\ pc' = "returned"
    /\ UNCHANGED <<config, events, hi, heap, heap0, record0, record, emitted, exc, filterLog,
                   call, out, tokens>>

\* A direct call sanitizer.sanitize_dict(data, rules).
SanitizeDictCall ==
    /\ pc = "idle"
    /\ \E data \in DictInputs, rules \in RuleSets :
       \E a \in {Alloc(<<>>, data)} :
       \E r \in {sanitize_dict(privacy_filter.sanitizer, a.h, a.v, rules)} :
          /\ heap0' = a.h
          /\ heap' = r.h
          /\ call' = [method |-> "dict", self |-> privacy_filter.sanitizer,
                      arg |-> a.v, rules |-> rules]
          /\ out' = [exc |-> r.exc, v |-> r.v]
          /\ exc' = r.exc
          /\ pc' = IF r.exc = "none" THEN "returned" ELSE "raised"
    /\ UNCHANGED <<config, events, hi, record0, record, emitted, filterLog, tokens>>

Next == LogCall \/ Handler_handle \/ LogReturn \/ SanitizeDictCall

Spec == Init /\ [][Next]_vars

-----------------------------------------------------------------------------
(* Direct calls of the sanitizer's methods, on instances of any            *)
(* min_mask_length.                                                        *)

\* Strings of up to MaxLen characters, instances with min_mask_length up to
\* MaxMinMask, and up to MaxCalls calls of sanitize_block_id in a row.
MaxLen == 3
MaxMinMask == 13
MaxCalls == 2

\* The strings over {a, b} of length up to n.
RECURSIVE StringsUpTo(_)
StringsUpTo(n) ==
    IF n = 0 THEN {<<>>}
    ELSE StringsUpTo(n - 1)
         \cup {Append(s, c) : s \in {t \in StringsUpTo(n - 1) : Len(t) = n - 1},
                              c \in {"a", "b"}}

\* Names of the journal shape, put together from their parts:
\* <word> <day><ordinal>, <year>.
JournalNames ==
    {word \o <<" ">> \o day \o ordinal \o <<",", " ">> \o year :
        word \in {<<"a">>, <<"J", "u", "l">>, <<"D", "e", "c", "e", "m", "b", "e", "r">>},
        day \in {<<"1">>, <<"2", "5">>},
        ordinal \in {<<>>, <<"s", "t">>, <<"t", "h">>},
        year \in {<<"2", "0", "2", "4">>, <<"2", "0", "2", "3">>}}

\* Texts handed to the methods: None, the short strings, and longer ones.
Texts ==
    {NoneV} \cup {StrV(s) : s \in StringsUpTo(MaxLen)}
    \cup {Msg.getting, Msg.search, GetItem(Args.scenario.v, K.content)}

BlockIds == {NoneV, StrV(<<>>), StrV(<<"a">>), GetItem(Args.block.v, K.uuid)}

\* The call made, what it gave back, and where that leaves the caller.
Called(method, self, arg, r) ==
    /\ call' = [method |-> method, self |-> self, arg |-> arg, rules |-> <<>>]
    /\ out' = [exc |-> r.exc, v |-> r.v]
    /\ exc' = r.exc
    /\ pc' = IF r.exc = "none" THEN "returned" ELSE "raised"
    /\ UNCHANGED <<config, events, hi, heap, heap0, record0, record, emitted, filterLog>>

\* LogSanitizer(m).sanitize_page_name(name)
Call_sanitize_page_name ==
    /\ pc = "idle"
    /\ \E m \in 1..MaxMinMask, name \in Texts \cup {StrV(s) : s \in JournalNames} :
          Called("page_name", LogSanitizer(m), name,
                 sanitize_page_name(LogSanitizer(m), <<>>, name))
    /\ UNCHANGED tokens

\* LogSanitizer().sanitize_content(content)
Call_sanitize_content ==
    /\ pc = "idle"
    /\ \E content \in Texts :
          Called("content", privacy_filter.sanitizer, content,
                 sanitize_content(privacy_filter.sanitizer, <<>>, content))
    /\ UNCHANGED tokens

\* LogSanitizer().sanitize_query(query)
Call_sanitize_query ==
    /\ pc = "idle"
    /\ \E query \in Texts :
          Called("query", privacy_filter.sanitizer, query,
                 sanitize_query(privacy_filter.sanitizer, <<>>, query))
    /\ UNCHANGED tokens

\* LogSanitizer(m).sanitize_block_id(block_id), as the first call or after
\* another call of it, on the same or on another instance; `tokens` keeps
\* every call's instance, id and outcome.
Call_sanitize_block_id ==
    /\ call.method \in {"none", "block_id"}
    /\ Len(tokens) < MaxCalls
    /\ \E m \in {DefaultMinMaskLength, DefaultMinMaskLength + 2}, block_id \in BlockIds :
       \E r \in {sanitize_block_id(LogSanitizer(m), <<>>, block_id)} :
          /\ Called("block_id", LogSanitizer(m), block_id, r)
          /\ tokens' = Append(tokens, [self |-> LogSanitizer(m), id |-> block_id,
                                       exc |-> r.exc, token |-> r.v])

\* Paths handed to sanitize_path: None, the empty path, home directories
\* and graphs directories in both separator styles and in other case, and
\* a path with neither.
Paths ==
    {NoneV, StrV(<<>>),
     StrV(<<"/", "h", "o", "m", "e", "/", "a", "l", "i", "c", "e", "/", "g", "r", "a",
          "p", "h", "s", "/", "w", "o", "r", "k", "-", "n", "o", "t", "e", "s">>),
     StrV(<<"/", "h", "o", "m", "e", "/", "j", "o", "h", "n", "/", "D", "o", "c", "u",
          "m", "e", "n", "t", "s">>),
     StrV(<<"/", "U", "s", "e", "r", "s", "/", "j", "a", "n", "e", "/", "L", "o", "g",
          "s", "e", "q">>),
     StrV(<<"C", ":", "\\", "U", "s", "e", "r", "s", "\\", "j", "o", "h", "n", "\\", "D",
          "o", "c", "u", "m", "e", "n", "t", "s">>),
     StrV(<<"\\", "U", "s", "e", "r", "s", "\\", "j", "a", "n", "e", "\\", "g", "r", "a",
          "p", "h", "s", "\\", "p", "e", "r", "s", "o", "n", "a", "l">>),
     StrV(<<"/", "H", "O", "M", "E", "/", "a", "l", "i", "c", "e", "/", "x">>),
     StrV(<<"c", ":", "\\", "u", "s", "e", "r", "s", "\\", "b", "o", "b">>),
     StrV(<<"/", "h", "o", "m", "e", "/", "g", "r", "a", "p", "h", "s", "/", "x">>),
     StrV(<<"/", "d", "a", "t", "a", "/", "n", "o", "t", "e", "s", "/", "p", ".", "m",
          "d">>)}

\* LogSanitizer().sanitize_path(path)
Call_sanitize_path ==
    /\ pc = "idle"
    /\ \E path \in Paths :
          Called("path", privacy_filter.sanitizer, path,
                 sanitize_path(privacy_filter.sanitizer, <<>>, path))
    /\ UNCHANGED tokens

SanInit == Configured(INFO, PRIVACY, FALSE)

SanNext ==
    \/ Call_sanitize_page_name
    \/ Call_sanitize_content
    \/ Call_sanitize_query
    \/ Call_sanitize_block_id
    \/ Call_sanitize_path

SanSpec == SanInit /\ [][SanNext]_vars

-----------------------------------------------------------------------------
(* setup_logging: the resolution of its settings (logging_config.py).      *)

\* str.upper() of one character, and of a string.
UpperChar(c) == IF c \in Range(LowerChars)
                THEN UpperChars[CHOOSE i \in 1..Len(LowerChars) : LowerChars[i] = c]
                ELSE c
Upper(s) == [i \in 1..Len(s) |-> UpperChar(s[i])]

\* str.strip(): s without the whitespace at its ends.
RECURSIVE Strip(_)
Strip(s) ==
    IF s # <<>> /\ s[1] \in ReSpace THEN Strip(SubSeq(s, 2, Len(s)))
    ELSE IF s # <<>> /\ s[Len(s)] \in ReSpace THEN Strip(SubSeq(s, 1, Len(s) - 1))
    ELSE s

\* str.endswith
EndsWith(s, suffix) ==
    Len(s) >= Len(suffix) /\ SubSeq(s, Len(s) - Len(suffix) + 1, Len(s)) = suffix

\* The number written by a string of decimal digits.
RECURSIVE DigitsToNat(_)
DigitsToNat(digits) ==
    IF digits = <<>> THEN 0
    ELSE 10 * DigitsToNat(SubSeq(digits, 1, Len(digits) - 1))
         + ((CHOOSE i \in 1..10 : DigitChars[i] = digits[Len(digits)]) - 1)

\* int(s) of a string: whitespace around it is dropped, a sign may lead, and
\* what is left has to be decimal digits (the strings here hold no
\* underscore); anything else raises ValueError.
SignedInt(t) ==
    IF t # <<>> /\ t[1] \in {"+", "-"}
    THEN IF Len(t) > 1 /\ \A i \in 2..Len(t) : t[i] \in ReDigit
         THEN Return(<<>>, IntV((IF t[1] = "-" THEN -1 ELSE 1)
                                * DigitsToNat(SubSeq(t, 2, Len(t)))))
         ELSE Raise(<<>>, "ValueError")
    ELSE IF t # <<>> /\ \A i \in 1..Len(t) : t[i] \in ReDigit
    THEN Return(<<>>, IntV(DigitsToNat(t)))
    ELSE Raise(<<>>, "ValueError")
PyInt(s) == SignedInt(Strip(s))

\* r, an outcome of int(), times n.
Times(r, n) == IF r.exc # "none" THEN r ELSE Return(<<>>, IntV(r.v.v * n))

\* The size of `stripped`, the size string in upper case without the
\* whitespace at its ends.
SizeOf(stripped) ==
    IF EndsWith(stripped, <<"G", "B">>)
    THEN Times(PyInt(SubSeq(stripped, 1, Len(stripped) - 2)), 1024 * 1024 * 1024)
    ELSE IF EndsWith(stripped, <<"M", "B">>)
    THEN Times(PyInt(SubSeq(stripped, 1, Len(stripped) - 2)), 1024 * 1024)
    ELSE IF EndsWith(stripped, <<"K", "B">>)
    THEN Times(PyInt(SubSeq(stripped, 1, Len(stripped) - 2)), 1024)
    ELSE PyInt(stripped)

\* parse_size
parse_size(size_str) == SizeOf(Strip(Upper(size_str)))

\* A lookup that keeps the default it is given when there is one.
DefaultFirst(env, name, default) == IF default # NoneV THEN default ELSE env[name]

\* os.getenv(name, default): an unset variable is None in `env`.
Getenv(env, name, default) == IF env[name] = NoneV THEN default ELSE env[name]

\* getattr(logging, name, logging.INFO) for an upper-case name: the level
\* constants of the logging module, INFO for any other name.
LevelNamed(name) ==
    CASE name = <<"N", "O", "T", "S", "E", "T">> -> 0
      [] name = <<"D", "E", "B", "U", "G">> -> DEBUG
      [] name = <<"I", "N", "F", "O">> -> INFO
      [] name \in {<<"W", "A", "R", "N", "I", "N", "G">>, <<"W", "A", "R", "N">>} -> WARNING
      [] name = <<"E", "R", "R", "O", "R">> -> ERROR
      [] name \in {<<"C", "R", "I", "T", "I", "C", "A", "L">>, <<"F", "A", "T", "A", "L">>}
            -> ERROR + 10
      [] OTHER -> INFO

\* LoggingMode(value), with the fallback of setup_logging: PRIVACY for a
\* value that names no mode.
ModeNamed(value) ==
    CASE value = <<"p", "r", "i", "v", "a", "c", "y">> -> PRIVACY
      [] value = <<"d", "e", "b", "u", "g">> -> DEBUG_MODE
      [] value = <<"m", "i", "n", "i", "m", "a", "l">> -> MINIMAL
      [] OTHER -> PRIVACY

\* max_file_size when the argument is None.
DefaultMaxFileSize == 10 * 1024 * 1024

\* The retention days taken from the outcome r alone.
RetentionFromEnv(argument, env_retention, r) == r.v

\* retention_days after the environment has had its say: r is the outcome
\* of int(env_retention).
RetentionDays(argument, env_retention, r) ==
    IF Truthy(<<>>, env_retention) /\ r.exc = "none" THEN r.v ELSE argument

\* max_file_size after the environment has had its say: r is the outcome
\* of parse_size(env_max_size).
MaxFileSize(argument, env_max_size, r) ==
    IF Truthy(<<>>, env_max_size) /\ r.exc = "none" THEN r.v
    ELSE IF argument = NoneV THEN IntV(DefaultMaxFileSize) ELSE argument

\* The log file: the configured one, or the default in the logs directory,
\* named by the day unless retention is set.
LogFilePath(env_file, retention_days, today) ==
    IF env_file # NoneV THEN env_file
    ELSE IF Truthy(<<>>, retention_days)
    THEN StrV(<<"l", "o", "g", "s", "/", "l", "o", "g", "s", "e", "q", "-", "m", "c", "p",
                ".", "l", "o", "g">>)
    ELSE StrV(<<"l", "o", "g", "s", "/", "l", "o", "g", "s", "e", "q", "-", "m", "c", "p",
                "-">> \o today \o <<".", "l", "o", "g">>)

\* The file handler: time-based rotation when retention is set, else
\* size-based.
FileRotation(retention_days, max_file_size, backup_count) ==
    IF Truthy(<<>>, retention_days)
    THEN [kind |-> "TimedRotatingFileHandler", when |-> "midnight",
          backupCount |-> retention_days]
    ELSE [kind |-> "RotatingFileHandler", maxBytes |-> max_file_size,
          backupCount |-> backup_count]

\* The settings setup_logging resolves from its arguments and the
\* environment; `path` is the log file and `rotation` the file handler's.
ResolvedSettings(args, env, retention_days, max_file_size) ==
    [log_level |-> Getenv(env, "LOGSEQ_MCP_LOG_LEVEL", args.log_level),
     level |-> LevelNamed(Upper(Getenv(env, "LOGSEQ_MCP_LOG_LEVEL", args.log_level).v)),
     debug |-> Lower(Getenv(env, "LOGSEQ_MCP_DEBUG", StrV(<<"f", "a", "l", "s", "e">>)).v)
               = <<"t", "r", "u", "e">>,
     mode |-> ModeNamed(Lower(Getenv(env, "LOGSEQ_MCP_LOG_MODE",
                                     IF Truthy(<<>>, args.log_mode) THEN args.log_mode
                                     ELSE StrV(<<"p", "r", "i", "v", "a", "c", "y">>)).v)),
     retention_days |-> retention_days,
     max_file_size |-> max_file_size,
     path |-> LogFilePath(Getenv(env, "LOGSEQ_MCP_LOG_FILE", args.log_file),
                          retention_days, env.today),
     rotation |-> FileRotation(retention_days, max_file_size, args.backup_count)]

\* Lines 207-256 of setup_logging.
Resolve(args, env) ==
    ResolvedSettings(args, env,
        RetentionDays(args.retention_days, env["LOGSEQ_MCP_LOG_RETENTION_DAYS"],
                      IF env["LOGSEQ_MCP_LOG_RETENTION_DAYS"] = NoneV
                      THEN Raise(<<>>, "ValueError")
                      ELSE PyInt(env["LOGSEQ_MCP_LOG_RETENTION_DAYS"].v)),
        MaxFileSize(args.max_file_size, env["LOGSEQ_MCP_LOG_MAX_SIZE"],
                    IF env["LOGSEQ_MCP_LOG_MAX_SIZE"] = NoneV
                    THEN Raise(<<>>, "ValueError")
                    ELSE parse_size(env["LOGSEQ_MCP_LOG_MAX_SIZE"].v)))

-----------------------------------------------------------------------------
(* setup_logging: the call.                                                *)

\* The process environment at a call: the variables setup_logging reads,
\* None for one that is not set, and the day.
Environs == {
    [LOGSEQ_MCP_LOG_LEVEL |-> NoneV, LOGSEQ_MCP_LOG_FILE |-> NoneV,
     LOGSEQ_MCP_DEBUG |-> NoneV, LOGSEQ_MCP_LOG_MODE |-> NoneV,
     LOGSEQ_MCP_LOG_RETENTION_DAYS |-> NoneV, LOGSEQ_MCP_LOG_MAX_SIZE |-> NoneV,
     today |-> <<"2", "0", "2", "4", "0", "1", "1", "5">>],
    [LOGSEQ_MCP_LOG_LEVEL |-> StrV(<<"d", "e", "b", "u", "g">>),
     LOGSEQ_MCP_LOG_FILE |-> StrV(<<"e", "n", "v", ".", "l", "o", "g">>),
     LOGSEQ_MCP_DEBUG |-> StrV(<<"T", "R", "U", "E">>), LOGSEQ_MCP_LOG_MODE |-> StrV(<<"m",
     "i", "n", "i", "m", "a", "l">>), LOGSEQ_MCP_LOG_RETENTION_DAYS |-> StrV(<<"7">>),
     LOGSEQ_MCP_LOG_MAX_SIZE |-> StrV(<<"5", "M", "B">>), today |-> <<"2", "0", "2", "4",
     "0", "1", "1", "5">>],
    [LOGSEQ_MCP_LOG_LEVEL |-> StrV(<<"b", "o", "g", "u", "s">>),
     LOGSEQ_MCP_LOG_FILE |-> NoneV, LOGSEQ_MCP_DEBUG |-> StrV(<<"1">>),
     LOGSEQ_MCP_LOG_MODE |-> StrV(<<"b", "o", "g", "u", "s">>),
     LOGSEQ_MCP_LOG_RETENTION_DAYS |-> StrV(<<"a", "b", "c">>),
     LOGSEQ_MCP_LOG_MAX_SIZE |-> StrV(<<"1", ".", "5", "M", "B">>), today |-> <<"2", "0",
     "2", "4", "0", "1", "1", "5">>],
    [LOGSEQ_MCP_LOG_LEVEL |-> StrV(<<"e", "r", "r", "o", "r">>),
     LOGSEQ_MCP_LOG_FILE |-> NoneV, LOGSEQ_MCP_DEBUG |-> NoneV,
     LOGSEQ_MCP_LOG_MODE |-> NoneV, LOGSEQ_MCP_LOG_RETENTION_DAYS |-> NoneV,
     LOGSEQ_MCP_LOG_MAX_SIZE |-> NoneV, today |-> <<"2", "0", "2", "4", "0", "1", "1", "5">>],
    [LOGSEQ_MCP_LOG_LEVEL |-> NoneV, LOGSEQ_MCP_LOG_FILE |-> NoneV,
     LOGSEQ_MCP_DEBUG |-> StrV(<<"t", "r", "u", "e">>), LOGSEQ_MCP_LOG_MODE |-> StrV(<<"d",
     "e", "b", "u", "g">>), LOGSEQ_MCP_LOG_RETENTION_DAYS |-> NoneV,
     LOGSEQ_MCP_LOG_MAX_SIZE |-> NoneV, today |-> <<"2", "0", "2", "4", "0", "1", "1", "5">>],
    [LOGSEQ_MCP_LOG_LEVEL |-> NoneV, LOGSEQ_MCP_LOG_FILE |-> NoneV,
     LOGSEQ_MCP_DEBUG |-> NoneV, LOGSEQ_MCP_LOG_MODE |-> StrV(<<"D", "E", "B", "U", "G">>),
     LOGSEQ_MCP_LOG_RETENTION_DAYS |-> NoneV, LOGSEQ_MCP_LOG_MAX_SIZE |-> NoneV,
     today |-> <<"2", "0", "2", "4", "0", "1", "1", "5">>],
    [LOGSEQ_MCP_LOG_LEVEL |-> NoneV, LOGSEQ_MCP_LOG_FILE |-> NoneV,
     LOGSEQ_MCP_DEBUG |-> NoneV, LOGSEQ_MCP_LOG_MODE |-> NoneV,
     LOGSEQ_MCP_LOG_RETENTION_DAYS |-> StrV(<<"0">>), LOGSEQ_MCP_LOG_MAX_SIZE |-> StrV(<<" ",
     "2", " ", "k", "b", " ">>), today |-> <<"2", "0", "2", "4", "0", "1", "1", "5">>],
    [LOGSEQ_MCP_LOG_LEVEL |-> NoneV, LOGSEQ_MCP_LOG_FILE |-> NoneV,
     LOGSEQ_MCP_DEBUG |-> NoneV, LOGSEQ_MCP_LOG_MODE |-> NoneV,
     LOGSEQ_MCP_LOG_RETENTION_DAYS |-> StrV(<<" ", "3", "0", " ">>),
     LOGSEQ_MCP_LOG_MAX_SIZE |-> StrV(<<"1", "0", "0">>), today |-> <<"2", "0", "2", "4",
     "0", "1", "1", "5">>],
    [LOGSEQ_MCP_LOG_LEVEL |-> NoneV, LOGSEQ_MCP_LOG_FILE |-> NoneV,
     LOGSEQ_MCP_DEBUG |-> NoneV, LOGSEQ_MCP_LOG_MODE |-> NoneV,
     LOGSEQ_MCP_LOG_RETENTION_DAYS |-> StrV(<<"-", "1">>),
     LOGSEQ_MCP_LOG_MAX_SIZE |-> StrV(<<"1", "G", "B">>), today |-> <<"2", "0", "2", "4",
     "0", "1", "1", "5">>],
    [LOGSEQ_MCP_LOG_LEVEL |-> NoneV, LOGSEQ_MCP_LOG_FILE |-> NoneV,
     LOGSEQ_MCP_DEBUG |-> NoneV, LOGSEQ_MCP_LOG_MODE |-> NoneV,
     LOGSEQ_MCP_LOG_RETENTION_DAYS |-> StrV(<<>>), LOGSEQ_MCP_LOG_MAX_SIZE |-> StrV(<<"M",
     "B">>), today |-> <<"2", "0", "2", "4", "0", "1", "1", "5">>],
    [LOGSEQ_MCP_LOG_LEVEL |-> StrV(<<"w", "a", "r", "n", "i", "n", "g">>),
     LOGSEQ_MCP_LOG_FILE |-> StrV(<<"e", "n", "v", ".", "l", "o", "g">>),
     LOGSEQ_MCP_DEBUG |-> NoneV, LOGSEQ_MCP_LOG_MODE |-> StrV(<<"v", "e", "r", "b", "o", "s",
     "e">>), LOGSEQ_MCP_LOG_RETENTION_DAYS |-> StrV(<<"7", "d">>),
     LOGSEQ_MCP_LOG_MAX_SIZE |-> StrV(<<"t", "e", "n">>), today |-> <<"2", "0", "2", "4",
     "0", "1", "1", "5">>] }

\* The arguments of a call: the defaults of the signature, and explicit
\* values.
SetupArgs == {
    [log_level |-> StrV(<<"I", "N", "F", "O">>), log_file |-> NoneV, max_file_size |-> NoneV,
     backup_count |-> IntV(5), retention_days |-> NoneV, log_mode |-> NoneV],
    [log_level |-> StrV(<<"E", "R", "R", "O", "R">>), log_file |-> StrV(<<"a", "r", "g", ".",
     "l", "o", "g">>), max_file_size |-> IntV(1000), backup_count |-> IntV(3),
     retention_days |-> IntV(3), log_mode |-> StrV(<<"m", "i", "n", "i", "m", "a", "l">>)],
    [log_level |-> StrV(<<"d", "e", "b", "u", "g">>), log_file |-> NoneV,
     max_file_size |-> IntV(2048), backup_count |-> IntV(5), retention_days |-> NoneV,
     log_mode |-> StrV(<<"d", "e", "b", "u", "g">>)],
    [log_level |-> StrV(<<"I", "N", "F", "O">>), log_file |-> StrV(<<"a", "r", "g", ".", "l",
     "o", "g">>), max_file_size |-> NoneV, backup_count |-> IntV(5),
     retention_days |-> IntV(14), log_mode |-> StrV(<<>>)] }

\* The calls of setup_logging one run makes.
MaxSetups == 2

\* A root logger that kept the handlers it had.
KeepHandlers(hs) == hs

\* root_logger.handlers.clear(): what is left of the handlers hs.
ClearHandlers(hs) == <<>>

\* logger.info("Logging initialized", extra={...})
StartupRecord(s) ==
    [levelno |-> INFO,
     msg |-> StrV(<<"L", "o", "g", "g", "i", "n", "g", " ", "i", "n", "i", "t", "i", "a", "l", "i", "z", "e", "d">>),
     arguments |-> Absent, result |-> Absent,
     log_level |-> s.log_level, log_file |-> s.path, debug_mode |-> BoolV(s.debug),
     log_mode |-> s.mode, max_file_size |-> s.max_file_size,
     retention_days |-> s.retention_days]

\* Handler.handle for a record that has passed the handler's level: st is
\* the state of the call, f what the handler's filters made of the record.
Emit(hd, st, f) ==
    [ret |-> TRUE, exc |-> f.exc, record |-> f.record, h |-> f.h,
     log |-> st.log \o f.log,
     emitted |-> IF f.ret /\ f.exc = "none"
                 THEN Append(st.emitted, [handler |-> hd.name,
                                          out |-> Format(hd.formatter, f.h, f.record)])
                 ELSE st.emitted]

\* Logger.callHandlers from handler i on.
RECURSIVE callHandlers(_, _, _, _)
callHandlers(hs, i, pf, st) ==
    IF i > Len(hs) \/ st.exc # "none" THEN st
    ELSE callHandlers(hs, i + 1, pf,
             IF st.record.levelno < hs[i].level THEN st
             ELSE Emit(hs[i], st, RunFilters(hs[i].filters, 1, pf, [st EXCEPT !.log = <<>>])))

\* A logging call whose record is created whatever the level.
LogAlways(level, hs, pf, h, rec) ==
    callHandlers(hs, 1, pf,
        [ret |-> TRUE, exc |-> "none", record |-> rec, h |-> h, log |-> <<>>,
         emitted |-> <<>>])

\* A logging call made and returned within a function, on the heap h: the
\* record is created when its level is enabled.
Log(level, hs, pf, h, rec) ==
    IF rec.levelno < level
    THEN [ret |-> FALSE, exc |-> "none", record |-> NoRecord, h |-> h, log |-> <<>>,
          emitted |-> <<>>]
    ELSE callHandlers(hs, 1, pf,
             [ret |-> TRUE, exc |-> "none", record |-> rec, h |-> h, log |-> <<>>,
              emitted |-> <<>>])

\* setup_logging(log_level, log_file, max_file_size, backup_count,
\* retention_days, log_mode), whole: the settings are resolved, the root
\* logger gets its level, loses its handlers and gets the new ones, and the
\* startup record is logged.
SetupLogging ==
    /\ pc \in {"idle", "returned"}
    /\ Len(events) < MaxSetups
    /\ \E args \in SetupArgs, env \in Environs :
       \E s \in {Resolve(args, env)} :
       \E cfg \in {setup_logging(s.level, s.mode, s.debug)} :
       \E hs \in {ClearHandlers(handlers) \o cfg.handlers} :
       \E l \in {Log(s.level, hs, cfg.privacy_filter, <<>>, StartupRecord(s))} :
          /\ settings' = s
          /\ root_level' = s.level
          /\ env_debug' = s.debug
          /\ privacy_filter' = cfg.privacy_filter
          /\ handlers' = hs
          /\ record0' = IF l.record = NoRecord THEN NoRecord ELSE StartupRecord(s)
          /\ record' = l.record
          /\ emitted' = emitted \o l.emitted
          /\ filterLog' = l.log
          /\ exc' = l.exc
          /\ events' = Append(events, [op |-> "setup_logging", args |-> args, env |-> env,
                                       written |-> l.emitted])
    /\ pc' = "returned"
    /\ hi' = 1
    /\ UNCHANGED <<heap, heap0, call, out, tokens, logseq_client>>

\* The process before its first setup_logging call: the root logger as the
\* logging module makes it, level WARNING and no handler.
SetupInit ==
    /\ privacy_filter = NoneV
    /\ env_debug = FALSE
    /\ root_level = WARNING
    /\ handlers = <<>>
    /\ settings = NoneV
    /\ logseq_client = NoneV
    /\ events = <<>>
    /\ pc = "idle"
    /\ hi = 1
    /\ heap = <<>>
    /\ heap0 = <<>>
    /\ record0 = NoRecord
    /\ record = NoRecord
    /\ emitted = <<>>
    /\ exc = "none"
    /\ filterLog = <<>>
    /\ call = NoCall
    /\ out = NoOut
    /\ tokens = <<>>

SetupNext == SetupLogging

SetupSpec == SetupInit /\ [][SetupNext]_vars

-----------------------------------------------------------------------------
(* Journal names (utils/date_converter.py).  A date is a record of year,   *)
(* month and day; a string is a sequence of characters.                    *)

\* The month names of the C locale: %b and %B.
MonthAbbr == <<
    <<"J", "a", "n">>, <<"F", "e", "b">>, <<"M", "a", "r">>, <<"A", "p", "r">>,
    <<"M", "a", "y">>, <<"J", "u", "n">>, <<"J", "u", "l">>, <<"A", "u", "g">>,
    <<"S", "e", "p">>, <<"O", "c", "t">>, <<"N", "o", "v">>, <<"D", "e", "c">> >>
MonthFull == <<
    <<"J", "a", "n", "u", "a", "r", "y">>, <<"F", "e", "b", "r", "u", "a", "r", "y">>,
    <<"M", "a", "r", "c", "h">>, <<"A", "p", "r", "i", "l">>, <<"M", "a", "y">>,
    <<"J", "u", "n", "e">>, <<"J", "u", "l", "y">>, <<"A", "u", "g", "u", "s", "t">>,
    <<"S", "e", "p", "t", "e", "m", "b", "e", "r">>,
    <<"O", "c", "t", "o", "b", "e", "r">>, <<"N", "o", "v", "e", "m", "b", "e", "r">>,
    <<"D", "e", "c", "e", "m", "b", "e", "r">> >>

\* datetime.date(year, month, day), and the days a month has.
Date(year, month, day) == [t |-> "date", year |-> year, month |-> month, day |-> day]
DaysIn(year, month) ==
    IF month = 2
    THEN IF (year % 4 = 0 /\ year % 100 # 0) \/ year % 400 = 0 THEN 29 ELSE 28
    ELSE IF month \in {4, 6, 9, 11} THEN 30 ELSE 31

\* The formats tried by date_to_journal_format, in order; a directive is a
\* two-character string, anything else a character of the format.
formats == <<
    <<"%Y", "-", "%m", "-", "%d">>,
    <<"%Y", "/", "%m", "/", "%d">>,
    <<"%m", "/", "%d", "/", "%Y">>,
    <<"%d", "/", "%m", "/", "%Y">>,
    <<"%m", "-", "%d", "-", "%Y">>,
    <<"%d", "-", "%m", "-", "%Y">>,
    <<"%Y", "%m", "%d">>,
    <<"%B", " ", "%d", ",", " ", "%Y">>,
    <<"%b", " ", "%d", ",", " ", "%Y">> >>

\* Whether s has the name p at index i, whatever the case of its letters.
HasNameAt(s, i, p) ==
    /\ i + Len(p) - 1 <= Len(s)
    /\ \A k \in 1..Len(p) : LowerChar(s[i + k - 1]) = LowerChar(p[k])

\* The ends of whitespace runs that start at index i, the longest first.
RECURSIVE Runs(_, _)
Runs(i, e) == IF e <= i THEN <<>> ELSE <<e>> \o Runs(i, e - 1)

\* strptime's regular expression for one element of a format: the indexes
\* just past what the element can match at index i of s, in the order the
\* expression tries them.
\*   %Y \d\d\d\d      %m 1[0-2]|0[1-9]|[1-9]
\*   %d 3[0-1]|[1-2]\d|0[1-9]|[1-9]| [1-9]
\*   %b, %B the month names; whitespace \s+; any other character itself.
Candidates(s, i, el) ==
    LET c(j) == IF i + j <= Len(s) THEN s[i + j] ELSE "none"
        NonZero == ReDigit \ {"0"}
    IN  CASE el = "%Y" ->
               IF \A j \in 0..3 : c(j) \in ReDigit THEN <<i + 4>> ELSE <<>>
          [] el = "%m" ->
               (IF c(0) = "1" /\ c(1) \in {"0", "1", "2"} THEN <<i + 2>> ELSE <<>>)
               \o (IF c(0) = "0" /\ c(1) \in NonZero THEN <<i + 2>> ELSE <<>>)
               \o (IF c(0) \in NonZero THEN <<i + 1>> ELSE <<>>)
          [] el = "%d" ->
               (IF c(0) = "3" /\ c(1) \in {"0", "1"} THEN <<i + 2>> ELSE <<>>)
               \o (IF c(0) \in {"1", "2"} /\ c(1) \in ReDigit THEN <<i + 2>> ELSE <<>>)
               \o (IF c(0) = "0" /\ c(1) \in NonZero THEN <<i + 2>> ELSE <<>>)
               \o (IF c(0) \in NonZero THEN <<i + 1>> ELSE <<>>)
               \o (IF c(0) = " " /\ c(1) \in NonZero THEN <<i + 2>> ELSE <<>>)
          [] el = "%b" ->
               IF \E m \in 1..12 : HasNameAt(s, i, MonthAbbr[m]) THEN <<i + 3>> ELSE <<>>
          [] el = "%B" ->
               IF \E m \in 1..12 : HasNameAt(s, i, MonthFull[m])
               THEN <<i + Len(MonthFull[CHOOSE m \in 1..12 : HasNameAt(s, i, MonthFull[m])])>>
               ELSE <<>>
          [] el = " " -> Runs(i, RunEnd(s, i, ReSpace, TRUE))
          [] OTHER -> IF LowerChar(c(0)) = LowerChar(el) THEN <<i + 1>> ELSE <<>>

\* re.match of the expression of the format fmt, from element k on, at
\* index i of s: the first way the elements match one after the other, with
\* the text each element took.
RECURSIVE Match(_, _, _, _), FirstOf(_, _, _, _, _)
Match(s, i, fmt, k) ==
    IF k > Len(fmt) THEN [ok |-> TRUE, end |-> i, got |-> <<>>]
    ELSE FirstOf(s, i, fmt, k, Candidates(s, i, fmt[k]))
FirstOf(s, i, fmt, k, cands) ==
    IF cands = <<>> THEN [ok |-> FALSE, end |-> i, got |-> <<>>]
    ELSE IF Match(s, cands[1], fmt, k + 1).ok
    THEN [ok |-> TRUE, end |-> Match(s, cands[1], fmt, k + 1).end,
          got |-> <<SubSeq(s, i, cands[1] - 1)>> \o Match(s, cands[1], fmt, k + 1).got]
    ELSE FirstOf(s, i, fmt, k, Tail(cands))

\* The number a directive of fmt stands for in the texts `got`: the digits
\* of %Y, %m and %d (a day may be led by a space), the month of a name.
Field(fmt, got, el) ==
    LET text == got[CHOOSE k \in 1..Len(fmt) : fmt[k] = el]
    IN  CASE el = "%b" -> CHOOSE m \in 1..12 : Lower(MonthAbbr[m]) = Lower(text)
          [] el = "%B" -> CHOOSE m \in 1..12 : Lower(MonthFull[m]) = Lower(text)
          [] OTHER -> DigitsToNat(Strip(text))
MonthField(fmt, got) ==
    IF "%m" \in Range(fmt) THEN Field(fmt, got, "%m")
    ELSE IF "%b" \in Range(fmt) THEN Field(fmt, got, "%b")
    ELSE Field(fmt, got, "%B")

\* The date of the fields of a match; there is no year 0 and no day past
\* the end of the month.
DateOf(year, month, day) ==
    IF year < 1 \/ day > DaysIn(year, month) THEN Raise(<<>>, "ValueError")
    ELSE Return(<<>>, Date(year, month, day))

\* datetime.strptime(s, fmt).date(): the whole of s has to be matched.
Parsed(s, fmt, m) ==
    IF ~m.ok \/ m.end # Len(s) + 1 THEN Raise(<<>>, "ValueError")
    ELSE DateOf(Field(fmt, m.got, "%Y"), MonthField(fmt, m.got), Field(fmt, m.got, "%d"))
strptime(s, fmt) == Parsed(s, fmt, Match(s, 1, fmt, 1))

\* ^[A-Za-z]{3} \d{1,2}(st|nd|rd|th), \d{4}$ on a stripped string.
journal_pattern(date_str) ==
    \E n \in {1, 2} :
        /\ Len(date_str) = 12 + n
        /\ \A i \in 1..3 : date_str[i] \in Range(LowerChars) \cup Range(UpperChars)
        /\ date_str[4] = " "
        /\ \A i \in 5..(4 + n) : date_str[i] \in ReDigit
        /\ SubSeq(date_str, 5 + n, 6 + n) \in {<<"s", "t">>, <<"n", "d">>, <<"r", "d">>,
                                              <<"t", "h">>}
        /\ SubSeq(date_str, 7 + n, 8 + n) = <<",", " ">>
        /\ \A i \in (9 + n)..(12 + n) : date_str[i] \in ReDigit

\* The ordinal suffix of a day.
OrdinalSuffix(day) ==
    IF 10 <= day % 100 /\ day % 100 <= 20 THEN <<"t", "h">>
    ELSE CASE day % 10 = 1 -> <<"s", "t">>
           [] day % 10 = 2 -> <<"n", "d">>
           [] day % 10 = 3 -> <<"r", "d">>
           [] OTHER -> <<"t", "h">>

\* strftime's %Y.  The C library writes a year below 1000 with its own
\* digits only, or with zeros in front up to four digits: which of the two
\* depends on the platform, and `padded` says which.
YearText(year, padded) ==
    IF padded /\ year < 1000
    THEN SubSeq(<<"0", "0", "0">>, 1, 4 - Len(IntToStr(year))) \o IntToStr(year)
    ELSE IntToStr(year)

\* dt.strftime(f"%b {day}{suffix}, %Y")
JournalName(dt, padded) ==
    MonthAbbr[dt.month] \o <<" ">> \o IntToStr(dt.day) \o OrdinalSuffix(dt.day) \o <<",", " ">>
    \o YearText(dt.year, padded)

\* The loop over the formats from format k on: the date of the first format
\* that parses date_str, or ValueError.
RECURSIVE TryFormats(_, _)
TryFormats(date_str, k) ==
    IF k > Len(formats) THEN Raise(<<>>, "ValueError")
    ELSE IF strptime(date_str, formats[k]).exc = "none" THEN strptime(date_str, formats[k])
    ELSE TryFormats(date_str, k + 1)

\* The journal name of the outcome of the loop.
Formatted(r, padded) ==
    IF r.exc # "none" THEN r ELSE Return(<<>>, StrV(JournalName(r.v, padded)))

\* date_to_journal_format(input_date), for a date or a scalar.
date_to_journal_format(input_date, padded) ==
    IF input_date.t = "date" THEN Return(<<>>, StrV(JournalName(input_date, padded)))
    ELSE IF journal_pattern(Strip(PyStrOf(input_date)))
    THEN Return(<<>>, StrV(Strip(PyStrOf(input_date))))
    ELSE Formatted(TryFormats(Strip(PyStrOf(input_date)), 1), padded)

\* re.sub(r"(\d+)(st|nd|rd|th)", r"\1", s) from index i on: an ordinal
\* suffix that follows digits is dropped.
RECURSIVE cleaned(_, _)
cleaned(s, i) ==
    IF i > Len(s) THEN <<>>
    ELSE IF s[i] \in ReDigit
            /\ \E ordinal \in {<<"s", "t">>, <<"n", "d">>, <<"r", "d">>, <<"t", "h">>} :
                  HasAt(s, RunEnd(s, i, ReDigit, TRUE), ordinal)
    THEN SubSeq(s, i, RunEnd(s, i, ReDigit, TRUE) - 1)
         \o cleaned(s, RunEnd(s, i, ReDigit, TRUE) + 2)
    ELSE <<s[i]>> \o cleaned(s, i + 1)

\* journal_format_to_date(journal_name)
journal_format_to_date(journal_name) ==
    strptime(cleaned(journal_name, 1), formats[9])

\* The years of the dates converted: the first and the last year of the
\* calendar, the years around the first with four digits, and two of now.
Years == {1, 999, 1000, 2023, 2024, 9999}

\* date_to_journal_format(input_date) is called with a date or with a
\* string, on a platform of either kind.
Call_date_to_journal_format ==
    /\ pc = "idle"
    /\ \E padded \in BOOLEAN,
          input_date \in
            {Date(y, m, d) : y \in Years, m \in 1..12, d \in 1..31} \cup {
             StrV(<<"2", "0", "2", "3", "-", "1", "2", "-", "2", "5">>),
             StrV(<<"1", "2", "/", "2", "5", "/", "2", "0", "2", "3">>),
             StrV(<<"2", "5", "/", "1", "2", "/", "2", "0", "2", "3">>),
             StrV(<<"2", "0", "2", "3", "1", "2", "2", "5">>),
             StrV(<<"D", "e", "c", "e", "m", "b", "e", "r", " ", "2", "5", ",", " ", "2", "0", "2", "3">>),
             StrV(<<"d", "e", "c", " ", "5", ",", " ", "2", "0", "2", "3">>),
             StrV(<<"D", "e", "c", " ", "2", "5", "t", "h", ",", " ", "2", "0", "2", "3">>),
             StrV(<<"D", "e", "c", " ", "2", "5", "r", "d", ",", " ", "2", "0", "2", "3">>),
             StrV(<<"2", "0", "2", "3", "-", "0", "2", "-", "3", "0">>),
             StrV(<<"t", "o", "m", "o", "r", "r", "o", "w">>),
             StrV(<<>>),
             StrV(<<" ", "2", "0", "2", "3", "-", "1", "-", "5", " ">>)} :
       \E r \in {date_to_journal_format(input_date, padded)} :
          /\ input_date.t = "date" => input_date.day <= DaysIn(input_date.year, input_date.month)
          /\ events' = <<[op |-> "date_to_journal_format", input |-> input_date,
                          padded |-> padded, exc |-> r.exc, v |-> r.v]>>
          /\ exc' = r.exc
          /\ pc' = IF r.exc = "none" THEN "returned" ELSE "raised"
    /\ UNCHANGED <<config, hi, heap, heap0, record0, record, emitted, filterLog, call, out,
                   tokens>>

\* journal_format_to_date(journal_name) is called with the name that
\* date_to_journal_format has just returned, or with a string.
Call_journal_format_to_date ==
    /\ \/ pc = "idle"
       \/ pc = "returned" /\ Len(events) = 1 /\ events[1].op = "date_to_journal_format"
    /\ \E journal_name \in
            IF pc = "returned" THEN {events[1].v}
            ELSE {
                  StrV(<<"D", "e", "c", " ", "2", "5", "t", "h", ",", " ", "2", "0", "2", "3">>),
                  StrV(<<"A", "u", "g", " ", "2", "n", "d", ",", " ", "2", "0", "2", "4">>),
                  StrV(<<"J", "a", "n", " ", "1", ",", " ", "2", "0", "2", "4">>),
                  StrV(<<"2", "5", "t", "h", " ", "D", "e", "c", "e", "m", "b", "e", "r", ",", " ", "2", "0", "2", "3">>),
                  StrV(<<"F", "e", "b", " ", "3", "0", "t", "h", ",", " ", "2", "0", "2", "3">>)} :
       \E r \in {journal_format_to_date(journal_name.v)} :
          /\ events' = Append(events, [op |-> "journal_format_to_date", input |-> journal_name,
                                       padded |-> FALSE, exc |-> r.exc, v |-> r.v])
          /\ exc' = r.exc
          /\ pc' = IF r.exc = "none" THEN "done" ELSE "failed"
    /\ UNCHANGED <<config, hi, heap, heap0, record0, record, emitted, filterLog, call, out,
                   tokens>>

DateInit == Configured(INFO, PRIVACY, FALSE)

DateNext == Call_date_to_journal_format \/ Call_journal_format_to_date

DateSpec == DateInit /\ [][DateNext]_vars

-----------------------------------------------------------------------------
(* log_tool_invocation (logging_config.py), and the logging calls of a     *)
(* function.                                                               *)

\* The failure record with the result attached as well.
ResultAlways(tool_name, arguments, result, error, duration_ms) ==
    [levelno |-> IF error # NoneV THEN ERROR ELSE INFO,
     msg |-> StrV(<<"T", "o", "o", "l", " ">> \o tool_name),
     tool_name |-> StrV(tool_name), arguments |-> arguments, result |-> result,
     error |-> IF error # NoneV THEN StrV(error.v) ELSE Absent,
     duration_ms |-> IF duration_ms # NoneV THEN duration_ms ELSE Absent,
     exc_info |-> error # NoneV]

\* log_tool_invocation: the logging call it makes.  An exception instance
\* e is the record of its type and of str(e), and is true; exc_info is the
\* flag of the logging call.
log_tool_invocation(tool_name, arguments, result, error, duration_ms) ==
    IF error # NoneV
    THEN [levelno |-> ERROR,
          msg |-> StrV(<<"T", "o", "o", "l", " ">> \o tool_name
                       \o <<" ", "f", "a", "i", "l", "e", "d", ":", " ">> \o error.v),
          tool_name |-> StrV(tool_name), arguments |-> arguments, result |-> Absent,
          error |-> StrV(error.v),
          duration_ms |-> IF duration_ms # NoneV THEN duration_ms ELSE Absent,
          exc_info |-> TRUE]
    ELSE [levelno |-> INFO,
          msg |-> StrV(<<"T", "o", "o", "l", " ">> \o tool_name
                       \o <<" ", "c", "o", "m", "p", "l", "e", "t", "e", "d", " ", "s", "u",
                       "c", "c", "e", "s", "s", "f", "u", "l", "l", "y">>),
          tool_name |-> StrV(tool_name), arguments |-> arguments, result |-> result,
          error |-> Absent,
          duration_ms |-> IF duration_ms # NoneV THEN duration_ms ELSE Absent,
          exc_info |-> FALSE]

\* A logging call of the server or of the client: the level, the message,
\* the extra fields it is given (Absent for one it is not), and exc_info.
LogRecord(levelno, msg, tool_name, arguments, exc_info) ==
    [levelno |-> levelno, msg |-> StrV(msg), tool_name |-> tool_name,
     arguments |-> arguments, result |-> Absent, error |-> Absent,
     duration_ms |-> Absent, exc_info |-> exc_info]

\* The state of a function after the logging call `rec`, made through
\* `via`, whose outcome is l: the calls made so far, what the sinks wrote,
\* and the exception that has left a filter.
AfterLog(st, via, rec, l) ==
    [st EXCEPT !.h = l.h, !.exc = l.exc, !.emitted = st.emitted \o l.emitted,
               !.calls = Append(st.calls, [via |-> via, record |-> rec,
                                           created |-> l.record # NoRecord])]

\* The functions of the client and of the server, and the logging call they
\* make: Invoke(f, x, st) is the function f called with x in state st.
RECURSIVE Invoke(_, _, _)

\* One more logging call of a function in state st; no call when an
\* exception has left it.
LogStep(st, via, rec) == Invoke("logging", [via |-> via, record |-> rec], st)

\* The function is left by the exception e, or by the one that has left a
\* logging call of its own.
Leave(st, e) == IF st.exc # "none" THEN st ELSE [st EXCEPT !.exc = e]

-----------------------------------------------------------------------------
(* LogseqClient (logseq/client.py).  The upstream API is an input: what    *)
(* the POST of a request gives, a response body or a failure.              *)

\* json.dumps(x) of a JSON-like value given as a tree, with the default
\* separators; in a string the quote and the backslash are escaped.
RECURSIVE EscapedBetween(_, _, _)
EscapedBetween(s, a, b) ==
    IF a > b THEN <<>>
    ELSE IF a = b
    THEN (IF s[a] \in {"\"", "\\"} THEN <<"\\", s[a]>> ELSE <<s[a]>>)
    ELSE EscapedBetween(s, a, (a + b) \div 2)
         \o EscapedBetween(s, (a + b) \div 2 + 1, b)

Escaped(s, i) == EscapedBetween(s, i, Len(s))

RECURSIVE Dumps(_)
RECURSIVE DumpsFrom(_, _)
Dumps(x) ==
    CASE x.t = "str"  -> <<"\"">> \o Escaped(x.v, 1) \o <<"\"">>
      [] x.t = "int"  -> IntToStr(x.v)
      [] x.t = "bool" -> IF x.v THEN <<"t", "r", "u", "e">> ELSE <<"f", "a", "l", "s", "e">>
      [] x.t = "none" -> <<"n", "u", "l", "l">>
      [] x.t = "list" -> <<"[">> \o DumpsFrom(x, 1) \o <<"]">>
      [] x.t = "dict" -> <<"{">> \o DumpsFrom(x, 1) \o <<"}">>
DumpsFrom(x, i) ==
    IF i > Len(x.v) THEN <<>>
    ELSE (IF i > 1 THEN <<",", " ">> ELSE <<>>)
         \o (IF x.t = "dict"
             THEN <<"\"">> \o Escaped(x.v[i][1], 1) \o <<"\"", ":", " ">>
                  \o Dumps(x.v[i][2])
             ELSE Dumps(x.v[i]))
         \o DumpsFrom(x, i + 1)

\* text[:n]
Preview(text, n) == IF Len(text) <= n THEN text ELSE SubSeq(text, 1, n)

\* The record with the extra field `field` of a logging call of the client.
WithExtra(rec, field, x) ==
    [k \in DOMAIN rec \cup {field} |-> IF k = field THEN x ELSE rec[k]]

\* str(e) of the exception that has left a function in state st: the text
\* the raising code gave it is the state's value.
str_e(st) == IF st.v.t = "str" THEN st.v.v ELSE <<>>

\* The function is left by the exception e with the given text, or by the
\* exception that has left a logging call of its own.
Raising(st, e, text) ==
    IF st.exc # "none" THEN st ELSE [st EXCEPT !.exc = e, !.v = StrV(text)]

\* _request: request_data, with the args when they are not None.
RequestData(action, args) ==
    DictObj(<<<<<<"m", "e", "t", "h", "o", "d">>, StrV(action)>>>>
            \o IF args.t = "absent" THEN <<>> ELSE <<<<<<"a", "r", "g", "s">>, args>>>>)

\* _request: its two logging calls before the POST, in state st.
BeforePost(action, args, st) ==
    LogStep(LogStep(st, "_request",
                WithExtra(LogRecord(DEBUG, <<"L", "o", "g", "s", "e", "q", " ", "A", "P",
                        "I", " ", "r", "e", "q", "u", "e", "s", "t", ":", " ">> \o action,
                                    Absent, Absent, FALSE),
                          "request_data", RequestData(action, args))),
            "_request",
            LogRecord(INFO, <<"S", "e", "n", "d", "i", "n", "g", " ", "J", "S", "O", "N",
                    " ", "p", "a", "y", "l", "o", "a", "d", " ", "t", "o", " ", "L", "o",
                    "g", "s", "e", "q", " ", "A", "P", "I", ":", " ">>
                            \o Dumps(RequestData(action, args)),
                      Absent, Absent, FALSE))

\* _request: the response body `text` (json.dumps of it) when the body is
\* true, as the INFO message gives it.
ResponsePreview(truthy, text) ==
    (IF truthy THEN Preview(text, 200) ELSE <<"n", "u", "l", "l">>)
    \o (IF truthy /\ Len(text) > 200 THEN <<".", ".", ".">> ELSE <<>>)

\* _request: response.json(), the body of the response as a new object.
Received(response, st) ==
    IF st.exc # "none" THEN st
    ELSE [st EXCEPT !.h = Alloc(st.h, response.v).h, !.v = Alloc(st.h, response.v).v]

\* _request: its two logging calls after the POST, in the state st whose
\* value is the body of the response.
Responded(action, st) ==
    LogStep(LogStep(st, "_request",
                WithExtra(LogRecord(DEBUG, <<"L", "o", "g", "s", "e", "q", " ", "A", "P",
                        "I", " ", "r", "e", "s", "p", "o", "n", "s", "e", ":",
                        " ">> \o action,
                                    Absent, Absent, FALSE),
                          "response_data",
                          IF Truthy(st.h, st.v)
                          THEN StrV(Preview(Dumps(Deref(st.h, st.v)), 500))
                          ELSE NoneV)),
            "_request",
            LogRecord(INFO, <<"R", "e", "c", "e", "i", "v", "e", "d", " ", "r", "e", "s",
                    "p", "o", "n", "s", "e", " ", "f", "r", "o", "m", " ", "L", "o", "g",
                    "s", "e", "q", " ", "A", "P", "I", ":", " ">>
                            \o ResponsePreview(Truthy(st.h, st.v),
                                               Dumps(Deref(st.h, st.v))),
                      Absent, Absent, FALSE))

\* LogseqClient._request(action, args), called in state st, the POST
\* giving `response`: a body, as a tree, or a failure with its text.  A
\* failure is logged with its trace and raised again.  The status code and
\* the response text of an HTTP error are left out of the ERROR record.
Request(action, args, response, st) ==
    IF response.exc = "none"
    THEN Responded(action, Received(response, BeforePost(action, args, st)))
    ELSE Raising(LogStep(BeforePost(action, args, st), "_request",
              WithExtra(LogRecord(ERROR, (IF response.exc = "HTTPStatusError"
                                          THEN <<"L", "o", "g", "s", "e", "q", " ", "A",
                                                  "P", "I", " ", "H", "T", "T", "P", " ",
                                                  "e", "r", "r", "o", "r", ":", " ">>
                                          ELSE <<"L", "o", "g", "s", "e", "q", " ", "A",
                                                  "P", "I", " ", "r", "e", "q", "u", "e",
                                                  "s", "t", " ", "f", "a", "i", "l", "e",
                                                  "d", ":", " ">>) \o action,
                                  Absent, Absent, TRUE),
                        "request_data", RequestData(action, args))),
          response.exc, PyStrOf(response.v))

\* A client method without an except clause: the exception goes on.
Propagate(method, name, st) == st

\* The except clause of a client method, entered in state st: get_page
\* logs the exception and raises it again; get_page_blocks, get_all_pages
\* and search_pages log it and return a new empty list.
MethodExcept(method, name, st) ==
    IF method = "get_page"
    THEN Leave(LogStep([st EXCEPT !.exc = "none"], method,
                       LogRecord(ERROR, <<"F", "a", "i", "l", "e", "d", " ", "t", "o", " ",
                               "g", "e", "t", " ", "p", "a", "g", "e", " ",
                               "'">> \o name \o <<"'", ":", " ">> \o str_e(st),
                                 Absent, Absent, FALSE)),
               st.exc)
    ELSE [LogStep([st EXCEPT !.exc = "none"], method,
                  LogRecord(ERROR,
                            (CASE method = "get_page_blocks" ->
                                    <<"F", "a", "i", "l", "e", "d", " ", "t", "o", " ", "g",
                                            "e", "t", " ", "b", "l", "o", "c", "k", "s",
                                            " ", "f", "o", "r", " ", "p", "a", "g", "e",
                                            " ", "'">> \o name \o <<"'", ":", " ">>
                               [] method = "get_all_pages" -> <<"F", "a", "i", "l", "e",
                                       "d", " ", "t", "o", " ", "g", "e", "t", " ", "a",
                                       "l", "l", " ", "p", "a", "g", "e", "s", ":", " ">>
                               [] method = "search_pages" -> <<"S", "e", "a", "r", "c", "h",
                                       " ", "f", "a", "i", "l", "e", "d", ":", " ">>)
                            \o str_e(st),
                            Absent, Absent, FALSE))
          EXCEPT !.v = ListObj(<<>>)]

\* The text of the AttributeError of result.get on a result that is no
\* dict.
NoAttributeGet(st) ==
    <<"'">> \o TypeName(st.h, st.v) \o <<"'", " ", "o", "b", "j", "e", "c", "t", " ", "h",
            "a", "s", " ", "n", "o", " ", "a", "t", "t", "r", "i", "b", "u", "t", "e", " ",
            "'", "g", "e", "t", "'">>

\* A client method whose request returned, leaving the state st with the
\* response body st.v: what the method logs and returns.
MethodResult(method, name, st) ==
    CASE method = "get_page" ->
           [LogStep(st, method,
                LogRecord(INFO,
                          IF Truthy(st.h, st.v)
                          THEN <<"P", "a", "g", "e", " ", "f", "o", "u", "n", "d", ":",
                                  " ">> \o Preview(Dumps(Deref(st.h, st.v)), 100) \o <<".",
                                  ".", ".">>
                          ELSE <<"P", "a", "g", "e", " ", "'">> \o name \o <<"'", " ", "n",
                                  "o", "t", " ", "f", "o", "u", "n", "d", " ", "(", "r",
                                  "e", "s", "u", "l", "t", " ", "w", "a", "s", " ", "n",
                                  "u", "l", "l", "/", "n", "i", "l", ")">>,
                          Absent, Absent, FALSE))
            EXCEPT !.v = IF Truthy(st.h, st.v) THEN st.v ELSE NoneV]
      [] method = "get_page_blocks" ->
           IF IsList(st.h, st.v) THEN st
           ELSE [LogStep(st, method,
                     LogRecord(WARNING, <<"U", "n", "e", "x", "p", "e", "c", "t", "e", "d",
                             " ", "r", "e", "s", "u", "l", "t", " ", "t", "y", "p", "e",
                             " ", "f", "o", "r", " ", "p", "a", "g", "e", " ", "b", "l",
                             "o", "c", "k", "s", ":", " ", "<", "c", "l", "a", "s", "s",
                             " ", "'">>
                                        \o TypeName(st.h, st.v) \o <<"'", ">">>,
                               Absent, Absent, FALSE))
                 EXCEPT !.v = ListObj(<<>>)]
      [] method = "get_all_pages" ->
           IF IsList(st.h, st.v) THEN st ELSE [st EXCEPT !.v = ListObj(<<>>)]
      [] method = "search_pages" ->
           IF IsList(st.h, st.v) THEN st
           ELSE IF ~Truthy(st.h, st.v) THEN [st EXCEPT !.v = ListObj(<<>>)]
           ELSE IF ~IsDict(st.h, st.v)
           THEN MethodExcept(method, name,
                             Raising(st, "AttributeError", NoAttributeGet(st)))
           ELSE IF HasKey(st.h[st.v.v].v, K.pages)
           THEN [st EXCEPT !.v = GetItem(st.h[st.v.v].v, K.pages)]
           ELSE [st EXCEPT !.v = ListObj(<<>>)]
      [] method = "execute_query" ->
           IF IsList(st.h, st.v) THEN st
           ELSE IF ~IsDict(st.h, st.v)
           THEN Raising(st, "AttributeError", NoAttributeGet(st))
           ELSE IF HasKey(st.h[st.v.v].v, K.results)
           THEN [st EXCEPT !.v = GetItem(st.h[st.v.v].v, K.results)]
           ELSE [st EXCEPT !.v = ListObj(<<>>)]
      [] OTHER -> st

\* A client method after its request, which left the state st.  get_page,
\* get_page_blocks, get_all_pages and search_pages have an except clause;
\* the other methods have none.
AfterRequest(method, name, st) ==
    IF st.exc = "none" THEN MethodResult(method, name, st)
    ELSE IF method \in {"get_page", "get_page_blocks", "get_all_pages", "search_pages"}
    THEN MethodExcept(method, name, st)
    ELSE st

\* The keyword arguments of the client's methods; one that a call does not
\* give is None.
Keywords == [content |-> NoneV, page |-> NoneV, parent_block_id |-> NoneV,
             properties |-> NoneV, block_id |-> NoneV, name |-> NoneV, query |-> NoneV]

\* The action a method requests.
Action == [
    create_block    |-> <<"l", "o", "g", "s", "e", "q", ".", "E", "d", "i", "t", "o", "r",
            ".", "i", "n", "s", "e", "r", "t", "B", "l", "o", "c", "k">>,
    update_block    |-> <<"l", "o", "g", "s", "e", "q", ".", "E", "d", "i", "t", "o", "r",
            ".", "u", "p", "d", "a", "t", "e", "B", "l", "o", "c", "k">>,
    delete_block    |-> <<"l", "o", "g", "s", "e", "q", ".", "E", "d", "i", "t", "o", "r",
            ".", "r", "e", "m", "o", "v", "e", "B", "l", "o", "c", "k">>,
    create_page     |-> <<"l", "o", "g", "s", "e", "q", ".", "E", "d", "i", "t", "o", "r",
            ".", "c", "r", "e", "a", "t", "e", "P", "a", "g", "e">>,
    get_page        |-> <<"l", "o", "g", "s", "e", "q", ".", "E", "d", "i", "t", "o", "r",
            ".", "g", "e", "t", "P", "a", "g", "e">>,
    get_page_blocks |-> <<"l", "o", "g", "s", "e", "q", ".", "E", "d", "i", "t", "o", "r",
            ".", "g", "e", "t", "P", "a", "g", "e", "B", "l", "o", "c", "k", "s", "T", "r",
            "e", "e">>,
    get_all_pages   |-> <<"l", "o", "g", "s", "e", "q", ".", "E", "d", "i", "t", "o", "r",
            ".", "g", "e", "t", "A", "l", "l", "P", "a", "g", "e", "s">>,
    search_pages    |-> <<"l", "o", "g", "s", "e", "q", ".", "E", "d", "i", "t", "o", "r",
            ".", "s", "e", "a", "r", "c", "h">>,
    execute_query   |-> <<"l", "o", "g", "s", "e", "q", ".", "D", "B", ".", "q">> ]

\* {"properties": properties} at the end of the args, when `given`.
Options(h, kw, given) ==
    IF given THEN <<DictObj(<<<<K.properties, Deref(h, kw.properties)>>>>)>> ELSE <<>>

\* The args a method passes to _request for its keyword arguments kw, as
\* a tree; Absent when it passes none.
RequestArgs(method, h, kw) ==
    CASE method = "create_block" ->
           ListObj(<<IF Truthy(h, kw.page) THEN kw.page ELSE kw.parent_block_id,
                     Deref(h, kw.content)>>
                   \o Options(h, kw, Truthy(h, kw.properties)))
      [] method = "update_block" ->
           ListObj(<<Deref(h, kw.block_id),
                     IF kw.content # NoneV THEN Deref(h, kw.content) ELSE StrV(<<>>)>>
                   \o Options(h, kw, kw.properties # NoneV))
      [] method = "delete_block" -> ListObj(<<Deref(h, kw.block_id)>>)
      [] method \in {"create_page", "get_page", "get_page_blocks"} ->
           ListObj(<<Deref(h, kw.name)>>)
      [] method = "get_all_pages" -> Absent
      [] method \in {"search_pages", "execute_query"} -> Deref(h, kw.query)

\* A method of LogseqClient other than create_page, called in state st with
\* the keyword arguments kw, the upstream giving `response` to its request.
ClientMethod(method, kw, response, st) ==
    IF /\ method = "create_block"
       /\ ~Truthy(st.h, kw.page)
       /\ ~Truthy(st.h, kw.parent_block_id)
    THEN Raising(st, "ValueError", <<"E", "i", "t", "h", "e", "r", " ", "p", "a", "g", "e",
            " ", "o", "r", " ", "p", "a", "r", "e", "n", "t", "_", "b", "l", "o", "c", "k",
            "_", "i", "d", " ", "m", "u", "s", "t", " ", "b", "e", " ", "p", "r", "o", "v",
            "i", "d", "e", "d">>)
    ELSE AfterRequest(method, PyStrOf(kw.name),
             Request(Action[method], RequestArgs(method, st.h, kw), response,
                 IF method = "get_page"
                 THEN LogStep(st, method,
                              LogRecord(INFO, <<"G", "e", "t", "t", "i", "n", "g", " ", "p",
                                      "a", "g", "e", ":", " ",
                                      "'">> \o PyStrOf(kw.name) \o <<"'">>,
                                        Absent, Absent, FALSE))
                 ELSE st))

\* create_page after its first request, which left the state st: with a
\* content and a true result the content is added as the first block of
\* the page, and the result of the first request is returned.
Returning(result, st) == IF st.exc # "none" THEN st ELSE [st EXCEPT !.v = result]
AfterCreated(kw, second, st) ==
    IF st.exc = "none" /\ Truthy(st.h, kw.content) /\ Truthy(st.h, st.v)
    THEN Returning(st.v,
             Invoke("create_block",
                    [kw |-> [Keywords EXCEPT !.content = kw.content, !.page = kw.name],
                     response |-> second], st))
    ELSE st

\* create_page(name, content); `first` and `second` are what the upstream
\* gives to the two requests.
create_page(kw, first, second, st) ==
    AfterCreated(kw, second,
        Request(Action.create_page, RequestArgs("create_page", st.h, kw), first, st))

-----------------------------------------------------------------------------
(* The tool handlers (server.py).  Each is given what the upstream answers  *)
(* to the requests it makes: `first` to its first request, `second` to the *)
(* one after it.                                                           *)

\* The keys of the arguments and of the results.
Keys == [success          |-> <<"s", "u", "c", "c", "e", "s", "s">>,
         error            |-> <<"e", "r", "r", "o", "r">>,
         block            |-> <<"b", "l", "o", "c", "k">>,
         result           |-> <<"r", "e", "s", "u", "l", "t">>,
         blocks           |-> <<"b", "l", "o", "c", "k", "s">>,
         count            |-> <<"c", "o", "u", "n", "t">>,
         journal_name     |-> <<"j", "o", "u", "r", "n", "a", "l", "_", "n", "a", "m",
                 "e">>,
         date             |-> <<"d", "a", "t", "e">>,
         limit            |-> <<"l", "i", "m", "i", "t">>,
         journal          |-> <<"j", "o", "u", "r", "n", "a", "l", "?">>,
         include_children |-> <<"i", "n", "c", "l", "u", "d", "e", "_", "c", "h", "i", "l",
                 "d", "r", "e", "n">>,
         include_journals |-> <<"i", "n", "c", "l", "u", "d", "e", "_", "j", "o", "u", "r",
                 "n", "a", "l", "s">>,
         parent_block_id  |-> <<"p", "a", "r", "e", "n", "t", "_", "b", "l", "o", "c", "k",
                 "_", "i", "d">>]

\* arguments.get(key, default)
Get(h, arguments, key, default) ==
    IF HasKey(h[arguments.v].v, key) THEN GetItem(h[arguments.v].v, key) ELSE default

\* A value the function has been given as a tree is an object of its own.
Stored(st) ==
    IF st.exc # "none" THEN st
    ELSE [st EXCEPT !.h = Alloc(st.h, st.v).h, !.v = Alloc(st.h, st.v).v]

\* return {...}: the new dict with the given items is the value.
Result(items, st) ==
    IF st.exc # "none" THEN st
    ELSE [st EXCEPT !.h = Append(st.h, DictObj(items)), !.v = RefV(Len(st.h) + 1)]

\* return {"success": False, "error": text}
Failure(text, st) ==
    Result(<<<<Keys.success, BoolV(FALSE)>>, <<Keys.error, StrV(text)>>>>, st)

\* return {"success": True, key: value}, the value being the state's.
Success(key, st) ==
    Result(<<<<Keys.success, BoolV(TRUE)>>, <<key, st.v>>>>, st)

\* return {"success": True, key: value, "count": len(value)}: TypeError
\* when the value has no length.
Counted(key, before, after, st) ==
    IF st.exc # "none" THEN st
    ELSE IF ~HasLen(st.v)
    THEN Raising(st, "TypeError", <<"o", "b", "j", "e", "c", "t", " ", "o", "f", " ", "t",
            "y", "p", "e", " ", "'">> \o TypeName(st.h, st.v)
                                  \o <<"'", " ", "h", "a", "s", " ", "n", "o", " ", "l",
                                          "e", "n", "(", ")">>)
    ELSE Result(<<<<Keys.success, BoolV(TRUE)>>, <<key, st.v>>,
                  <<Keys.count, IntV(PyLen(st.h, st.v))>>>>,
                LogStep(st, "logger",
                        LogRecord(DEBUG, before \o IntToStr(PyLen(st.h, st.v)) \o after,
                                  Absent, Absent, FALSE)))

\* logger.debug(msg)
Debug(msg, st) == LogStep(st, "logger", LogRecord(DEBUG, msg, Absent, Absent, FALSE))

\* The handler raises instead of returning the failure.
Reraised(what, st) == st

\* except Exception as e: the failure is logged with its trace and returned
\* as the result.
HandlerExcept(what, st) ==
    IF st.exc = "none" THEN st
    ELSE Failure(str_e(st),
             LogStep([st EXCEPT !.exc = "none"], "logger",
                     LogRecord(ERROR, <<"F", "a", "i", "l", "e", "d", " ", "t", "o",
                             " ">> \o what \o <<":", " ">> \o str_e(st),
                               Absent, Absent, TRUE)))

\* A handler: the check of the client, then the try block, whose outcome
\* is `tried`, under the except clause.
Guarded(what, st, tried) ==
    IF logseq_client = NoneV
    THEN Raising(st, "RuntimeError", <<"L", "o", "g", "s", "e", "q", " ", "c", "l", "i",
            "e", "n", "t", " ", "n", "o", "t", " ", "i", "n", "i", "t", "i", "a", "l", "i",
            "z", "e", "d">>)
    ELSE HandlerExcept(what, tried)

\* await logseq_client.<method>(...) in state st, its result an object.
Awaited(method, kw, response, st) ==
    IF st.exc # "none" THEN st
    ELSE Stored(Invoke(method, [kw |-> kw, response |-> response], st))

\* await logseq_client.<method>(<key>=arguments[key], ...): KeyError when
\* the arguments have no such key.
CalledWith(method, arguments, key, kw, response, st) ==
    IF st.exc # "none" THEN st
    ELSE IF ~HasKey(st.h[arguments.v].v, key)
    THEN Raising(st, "KeyError", <<"'">> \o key \o <<"'">>)
    ELSE Awaited(method, kw, response, st)

\* text[:n] of an argument: TypeError when it is no string.
Sliced(x, n, tail, before, st) ==
    IF IsStr(x) THEN Debug(before \o Preview(x.v, n) \o tail, st)
    ELSE Raising(st, "TypeError", <<"'">> \o TypeName(st.h, x)
                                  \o <<"'", " ", "o", "b", "j", "e", "c", "t", " ", "i",
                                          "s", " ", "n", "o", "t", " ", "s", "u", "b", "s",
                                          "c", "r", "i", "p", "t", "a", "b", "l", "e">>)

\* handle_create_block.  The result is left out of the last message.
handle_create_block(arguments, first, st) ==
    Guarded(<<"c", "r", "e", "a", "t", "e", " ", "b", "l", "o", "c", "k">>, st,
        Success(Keys.block,
            Debug(<<"B", "l", "o", "c", "k", " ", "c", "r", "e", "a", "t", "e", "d", " ",
                    "s", "u", "c", "c", "e", "s", "s", "f", "u", "l", "l", "y", ":", " ">>,
                CalledWith("create_block", arguments, K.content,
                       [Keywords EXCEPT
                           !.content = Get(st.h, arguments, K.content, NoneV),
                           !.page = Get(st.h, arguments, K.page, NoneV),
                           !.parent_block_id =
                               Get(st.h, arguments, Keys.parent_block_id, NoneV),
                           !.properties = Get(st.h, arguments, K.properties, NoneV)],
                       first,
                       Sliced(Get(st.h, arguments, K.content, StrV(<<>>)), 100, <<".", ".",
                               ".">>,
                              <<"C", "r", "e", "a", "t", "i", "n", "g", " ", "b", "l", "o",
                                      "c", "k", " ", "w", "i", "t", "h", " ", "c", "o", "n",
                                      "t", "e", "n", "t", ":", " ">>, st)))))

\* handle_update_block.  The result is left out of the last message.
handle_update_block(arguments, first, st) ==
    Guarded(<<"u", "p", "d", "a", "t", "e", " ", "b", "l", "o", "c", "k">>, st,
        Success(Keys.block,
            Debug(<<"B", "l", "o", "c", "k", " ", "u", "p", "d", "a", "t", "e", "d", " ",
                    "s", "u", "c", "c", "e", "s", "s", "f", "u", "l", "l", "y", ":", " ">>,
                CalledWith("update_block", arguments, K.block_id,
                       [Keywords EXCEPT
                           !.block_id = Get(st.h, arguments, K.block_id, NoneV),
                           !.content = Get(st.h, arguments, K.content, NoneV),
                           !.properties = Get(st.h, arguments, K.properties, NoneV)],
                       first,
                       Debug(<<"U", "p", "d", "a", "t", "i", "n", "g", " ", "b", "l", "o",
                               "c", "k", " ">>
                             \o PyStrOf(Get(st.h, arguments, K.block_id, NoneV)), st)))))

\* handle_delete_block
handle_delete_block(arguments, first, st) ==
    Guarded(<<"d", "e", "l", "e", "t", "e", " ", "b", "l", "o", "c", "k">>, st,
        Success(Keys.result,
            Debug(<<"B", "l", "o", "c", "k", " ", "d", "e", "l", "e", "t", "e", "d", " ",
                    "s", "u", "c", "c", "e", "s", "s", "f", "u", "l", "l", "y">>,
                CalledWith("delete_block", arguments, K.block_id,
                       [Keywords EXCEPT
                           !.block_id = Get(st.h, arguments, K.block_id, NoneV)],
                       first,
                       Debug(<<"D", "e", "l", "e", "t", "i", "n", "g", " ", "b", "l", "o",
                               "c", "k", " ">>
                             \o PyStrOf(Get(st.h, arguments, K.block_id, NoneV)), st)))))

\* await logseq_client.create_page(name=arguments["name"], content=...)
CreatePageCalled(arguments, first, second, st) ==
    IF st.exc # "none" THEN st
    ELSE IF ~HasKey(st.h[arguments.v].v, K.name)
    THEN Raising(st, "KeyError", <<"'", "n", "a", "m", "e", "'">>)
    ELSE Stored(Invoke("create_page",
                       [kw |-> [Keywords EXCEPT
                                   !.name = Get(st.h, arguments, K.name, NoneV),
                                   !.content = Get(st.h, arguments, K.content, NoneV)],
                        response |-> first, second |-> second], st))

\* handle_create_page.  The result is left out of the last message.
handle_create_page(arguments, first, second, st) ==
    Guarded(<<"c", "r", "e", "a", "t", "e", " ", "p", "a", "g", "e">>, st,
        Success(K.page,
            Debug(<<"P", "a", "g", "e", " ", "c", "r", "e", "a", "t", "e", "d", " ", "s",
                    "u", "c", "c", "e", "s", "s", "f", "u", "l", "l", "y", ":", " ">>,
                CreatePageCalled(arguments, first, second,
                    Debug(<<"C", "r", "e", "a", "t", "i", "n", "g", " ", "p", "a", "g", "e",
                            ":", " ">>
                          \o PyStrOf(Get(st.h, arguments, K.name, NoneV)), st)))))

\* pages = [p for p in pages if not p.get("journal?", False)]: the pages
\* from index i on that are kept.
RECURSIVE Kept(_, _, _)
Kept(h, pages, i) ==
    IF i > Len(pages) THEN <<>>
    ELSE (IF Truthy(h, Get(h, pages[i], Keys.journal, BoolV(FALSE))) THEN <<>>
          ELSE <<pages[i]>>) \o Kept(h, pages, i + 1)

\* handle_get_all_pages after get_all_pages has returned in state st: the
\* journals are filtered out into a new list when they are not wanted;
\* AttributeError when a page is no dict.
JournalsFiltered(include_journals, st) ==
    IF st.exc # "none" \/ Truthy(st.h, include_journals) THEN st
    ELSE IF \E i \in 1..Len(st.h[st.v.v].v) : ~IsDict(st.h, st.h[st.v.v].v[i])
    THEN Raising(st, "AttributeError",
                 NoAttributeGet([st EXCEPT !.v = st.h[st.v.v].v[
                     CHOOSE i \in 1..Len(st.h[st.v.v].v) :
                         /\ ~IsDict(st.h, st.h[st.v.v].v[i])
                         /\ \A j \in 1..(i - 1) : IsDict(st.h, st.h[st.v.v].v[j])]]))
    ELSE [st EXCEPT !.h = Append(st.h, ListObj(Kept(st.h, st.h[st.v.v].v, 1))),
                    !.v = RefV(Len(st.h) + 1)]

\* handle_get_all_pages
handle_get_all_pages(arguments, first, st) ==
    Guarded(<<"g", "e", "t", " ", "a", "l", "l", " ", "p", "a", "g", "e", "s">>, st,
        Counted(K.pages, <<"R", "e", "t", "r", "i", "e", "v", "e", "d", " ">>, <<" ", "p",
                "a", "g", "e", "s">>,
            JournalsFiltered(Get(st.h, arguments, Keys.include_journals, BoolV(TRUE)),
                Awaited("get_all_pages", Keywords, first,
                    Debug(<<"G", "e", "t", "t", "i", "n", "g", " ", "a", "l", "l", " ", "p",
                            "a", "g", "e", "s", " ", "(", "i", "n", "c", "l", "u", "d", "e",
                            "_", "j", "o", "u", "r", "n", "a", "l", "s", "=">>
                          \o PyStrOf(Get(st.h, arguments, Keys.include_journals,
                                          BoolV(TRUE)))
                          \o <<")">>, st)))))

\* results = results[:limit] when a limit is given and exceeded, for
\* results that are a list: TypeError when they have no length.
Limited(limit, st) ==
    IF st.exc # "none" \/ ~Truthy(st.h, limit) THEN st
    ELSE IF ~HasLen(st.v)
    THEN Raising(st, "TypeError", <<"o", "b", "j", "e", "c", "t", " ", "o", "f", " ", "t",
            "y", "p", "e", " ", "'">> \o TypeName(st.h, st.v)
                                  \o <<"'", " ", "h", "a", "s", " ", "n", "o", " ", "l",
                                          "e", "n", "(", ")">>)
    ELSE IF Truthy(st.h, limit) /\ PyLen(st.h, st.v) > limit.v
    THEN [st EXCEPT !.h = Append(st.h, ListObj(SubSeq(st.h[st.v.v].v, 1, limit.v))),
                    !.v = RefV(Len(st.h) + 1)]
    ELSE st

\* handle_search_pages, for a limit that is a number.
handle_search_pages(arguments, first, st) ==
    Guarded(<<"s", "e", "a", "r", "c", "h", " ", "p", "a", "g", "e", "s">>, st,
        Counted(K.results, <<"F", "o", "u", "n", "d", " ">>, <<" ", "p", "a", "g", "e", "s",
                " ", "m", "a", "t", "c", "h", "i", "n", "g", " ", "q", "u", "e", "r", "y">>,
            Limited(Get(st.h, arguments, Keys.limit, IntV(10)),
                CalledWith("search_pages", arguments, K.query,
                       [Keywords EXCEPT !.query = Get(st.h, arguments, K.query, NoneV)],
                       first,
                       Debug(<<"S", "e", "a", "r", "c", "h", "i", "n", "g", " ", "p", "a",
                               "g", "e", "s", " ", "w", "i", "t", "h", " ", "q", "u", "e",
                               "r", "y", ":", " ">>
                             \o PyStrOf(Get(st.h, arguments, K.query, StrV(<<>>))), st)))))

\* handle_execute_query
handle_execute_query(arguments, first, st) ==
    Guarded(<<"e", "x", "e", "c", "u", "t", "e", " ", "q", "u", "e", "r", "y">>, st,
        Counted(K.results, <<"Q", "u", "e", "r", "y", " ", "r", "e", "t", "u", "r", "n",
                "e", "d", " ">>, <<" ", "r", "e", "s", "u", "l", "t", "s">>,
            CalledWith("execute_query", arguments, K.query,
                   [Keywords EXCEPT !.query = Get(st.h, arguments, K.query, NoneV)],
                   first,
                   Sliced(Get(st.h, arguments, K.query, StrV(<<>>)), 200, <<".", ".", ".">>,
                          <<"E", "x", "e", "c", "u", "t", "i", "n", "g", " ", "D", "a", "t",
                                  "a", "l", "o", "g", " ", "q", "u", "e", "r", "y", ":",
                                  " ">>, st))))

\* return {"success": True, "page": page, "blocks": blocks, ...}, the
\* blocks being the state's value.
Blocks(page, more, st) ==
    Result(<<<<Keys.success, BoolV(TRUE)>>, <<K.page, page>>, <<Keys.blocks, st.v>>>>
           \o more, st)

\* A new empty list is the value.
EmptyList(st) ==
    IF st.exc # "none" THEN st
    ELSE [st EXCEPT !.h = Append(st.h, ListObj(<<>>)), !.v = RefV(Len(st.h) + 1)]

\* The inner try of handle_get_page and of handle_get_journal_page, for a
\* page that has been found.  `tried` is the state after the try block,
\* whose value is the blocks; when an exception has left it, a warning is
\* logged and the blocks are a new empty list.
WithBlocks(page, more, warning, tried) ==
    IF tried.exc = "none" THEN Blocks(page, more, tried)
    ELSE Blocks(page, more,
             EmptyList(LogStep([tried EXCEPT !.exc = "none"], "logger",
                               LogRecord(WARNING, warning \o str_e(tried),
                                         Absent, Absent, FALSE))))

\* logger.debug(f"Retrieved page with {len(blocks) if blocks else 0} blocks")
Retrieved(st) ==
    IF st.exc # "none" THEN st
    ELSE Debug(<<"R", "e", "t", "r", "i", "e", "v", "e", "d", " ", "p", "a", "g", "e", " ",
            "w", "i", "t", "h", " ">>
               \o IntToStr(IF Truthy(st.h, st.v) THEN PyLen(st.h, st.v) ELSE 0)
               \o <<" ", "b", "l", "o", "c", "k", "s">>, st)

\* handle_get_page asking for the blocks whatever the page and the
\* arguments are.
BlocksAlways(arguments, page_name, second, st) ==
    IF st.exc # "none" THEN st
    ELSE WithBlocks(st.v, <<>>, <<>>,
                    Retrieved(Awaited("get_page_blocks",
                                      [Keywords EXCEPT !.name = page_name], second, st)))

\* handle_get_page after get_page has returned in state st.
PageGot(arguments, page_name, second, st) ==
    IF st.exc # "none" THEN st
    ELSE IF st.v = NoneV
    THEN Failure(<<"P", "a", "g", "e", " ", "'">> \o PyStrOf(page_name) \o <<"'", " ", "n",
            "o", "t", " ", "f", "o", "u", "n", "d">>,
                 Debug(<<"P", "a", "g", "e", " ", "'">> \o PyStrOf(page_name) \o <<"'", " ",
                         "n", "o", "t", " ", "f", "o", "u", "n", "d">>, st))
    ELSE IF Truthy(st.h, Get(st.h, arguments, Keys.include_children, BoolV(TRUE)))
    THEN WithBlocks(st.v, <<>>,
                    <<"F", "a", "i", "l", "e", "d", " ", "t", "o", " ", "g", "e", "t", " ",
                            "b", "l", "o", "c", "k", "s", " ", "f", "o", "r", " ", "p", "a",
                            "g", "e", " ", "'">> \o PyStrOf(page_name) \o <<"'", ":", " ">>,
                    Retrieved(Awaited("get_page_blocks",
                                      [Keywords EXCEPT !.name = page_name], second, st)))
    ELSE Result(<<<<Keys.success, BoolV(TRUE)>>, <<K.page, st.v>>>>,
                Debug(<<"R", "e", "t", "r", "i", "e", "v", "e", "d", " ", "p", "a", "g",
                        "e", " ", "w", "i", "t", "h", "o", "u", "t", " ", "b", "l", "o",
                        "c", "k", "s">>, st))

\* handle_get_page
handle_get_page(arguments, first, second, st) ==
    Guarded(<<"g", "e", "t", " ", "p", "a", "g", "e">>, st,
        IF ~Truthy(st.h, Get(st.h, arguments, K.name, StrV(<<>>)))
        THEN Failure(<<"P", "a", "g", "e", " ", "n", "a", "m", "e", " ", "i", "s", " ", "r",
                "e", "q", "u", "i", "r", "e", "d">>, st)
        ELSE PageGot(arguments, Get(st.h, arguments, K.name, StrV(<<>>)), second,
                 Awaited("get_page",
                         [Keywords EXCEPT
                             !.name = Get(st.h, arguments, K.name, StrV(<<>>))],
                         first,
                         Debug(<<"G", "e", "t", "t", "i", "n", "g", " ", "p", "a", "g", "e",
                                 ":", " ">>
                               \o PyStrOf(Get(st.h, arguments, K.name, StrV(<<>>))), st))))

\* handle_get_journal_page after the page was found and its uuid logged.
UuidLogged(arguments, page, journal_name, second, st) ==
    IF st.exc # "none" THEN st
    ELSE IF /\ Truthy(st.h, Get(st.h, arguments, Keys.include_children, BoolV(TRUE)))
            /\ Truthy(st.h, Get(st.h, page, K.uuid, NoneV))
    THEN WithBlocks(page, <<<<Keys.journal_name, journal_name>>>>,
                    <<"F", "a", "i", "l", "e", "d", " ", "t", "o", " ", "g", "e", "t", " ",
                            "b", "l", "o", "c", "k", "s", " ", "f", "o", "r", " ", "j", "o",
                            "u", "r", "n", "a", "l", " ", "p", "a", "g", "e", " ",
                            "'">> \o journal_name.v
                    \o <<"'", ":", " ">>,
                    Awaited("get_page_blocks", [Keywords EXCEPT !.name = journal_name],
                            second, Debug(<<"G", "e", "t", "t", "i", "n", "g", " ", "b",
                                    "l", "o", "c", "k", "s", " ", "f", "o", "r", " ", "j",
                                    "o", "u", "r", "n", "a", "l", " ", "p", "a", "g", "e">>,
                                    st)))
    ELSE Result(<<<<Keys.success, BoolV(TRUE)>>, <<K.page, page>>,
                  <<Keys.journal_name, journal_name>>>>,
                Debug(<<"R", "e", "t", "r", "i", "e", "v", "e", "d", " ", "j", "o", "u",
                        "r", "n", "a", "l", " ", "p", "a", "g", "e", " ", "w", "i", "t",
                        "h", "o", "u", "t", " ", "b", "l", "o", "c", "k", "s">>, st))

\* handle_get_journal_page after the page was found, in state st whose
\* value is the page: page.get("uuid") is logged, AttributeError when the
\* page is no dict.
JournalFound(arguments, journal_name, second, st) ==
    IF ~IsDict(st.h, st.v) THEN Raising(st, "AttributeError", NoAttributeGet(st))
    ELSE UuidLogged(arguments, st.v, journal_name, second,
             Debug(<<"R", "e", "t", "r", "i", "e", "v", "e", "d", " ", "j", "o", "u", "r",
                     "n", "a", "l", " ", "p", "a", "g", "e", ":", " ">>
                   \o PyStrOf(Get(st.h, st.v, K.uuid, NoneV)), st))

\* handle_get_journal_page after get_page has returned in state st.
JournalGot(arguments, date_input, journal_name, second, st) ==
    IF st.exc # "none" THEN st
    ELSE IF st.v = NoneV
    THEN Result(<<<<Keys.success, BoolV(FALSE)>>, <<K.page, NoneV>>,
                  <<Keys.journal_name, journal_name>>>>,
                LogStep(Debug(<<"J", "o", "u", "r", "n", "a", "l", " ", "p", "a", "g", "e",
                        " ", "'">> \o journal_name.v \o <<"'", " ", "n", "o", "t", " ", "f",
                        "o", "u", "n", "d">>, st),
                        "logger",
                        LogRecord(INFO, <<"T", "r", "i", "e", "d", " ", "t", "o", " ", "f",
                                "i", "n", "d", " ", "j", "o", "u", "r", "n", "a", "l", " ",
                                "p", "a", "g", "e", " ", "w", "i", "t", "h", " ", "n", "a",
                                "m", "e", ":", " ", "'">>
                                        \o journal_name.v \o <<"'", " ", "f", "o", "r", " ",
                                                "d", "a", "t", "e", " ", "i", "n", "p", "u",
                                                "t", ":", " ", "'">>
                                        \o PyStrOf(date_input) \o <<"'">>,
                                  Absent, Absent, FALSE)))
    ELSE JournalFound(arguments, journal_name, second, st)

\* handle_get_journal_page after the date was converted to journal_name.
Converted(arguments, date_input, journal_name, first, second, st) ==
    JournalGot(arguments, date_input, journal_name, second,
        Awaited("get_page", [Keywords EXCEPT !.name = journal_name], first,
                Debug(<<"G", "e", "t", "t", "i", "n", "g", " ", "j", "o", "u", "r", "n",
                        "a", "l", " ", "p", "a", "g", "e", ":", " ">> \o journal_name.v,
                      Debug(<<"C", "o", "n", "v", "e", "r", "t", "e", "d", " ", "d", "a",
                              "t", "e", " ", "'">> \o PyStrOf(date_input)
                            \o <<"'", " ", "t", "o", " ", "j", "o", "u", "r", "n", "a", "l",
                                    " ", "f", "o", "r", "m", "a", "t", ":", " ",
                                    "'">> \o journal_name.v \o <<"'">>,
                            st))))

\* handle_get_journal_page, for a date that is a scalar; `padded` is
\* whether the platform's strftime pads the year.
handle_get_journal_page(arguments, first, second, padded, st) ==
    Guarded(<<"g", "e", "t", " ", "j", "o", "u", "r", "n", "a", "l", " ", "p", "a", "g",
            "e">>, st,
        IF ~Truthy(st.h, Get(st.h, arguments, Keys.date, StrV(<<>>)))
        THEN Failure(<<"D", "a", "t", "e", " ", "i", "s", " ", "r", "e", "q", "u", "i", "r",
                "e", "d">>, st)
        ELSE IF date_to_journal_format(Get(st.h, arguments, Keys.date, StrV(<<>>)),
                                       padded).exc # "none"
        THEN Failure(<<"I", "n", "v", "a", "l", "i", "d", " ", "d", "a", "t", "e", " ", "f",
                "o", "r", "m", "a", "t", ":", " ", "C", "a", "n", "n", "o", "t", " ", "p",
                "a", "r", "s", "e", " ", "d", "a", "t", "e", ":", " ">>
                     \o PyStrOf(Get(st.h, arguments, Keys.date, StrV(<<>>))), st)
        ELSE Converted(arguments, Get(st.h, arguments, Keys.date, StrV(<<>>)),
                       date_to_journal_format(Get(st.h, arguments, Keys.date, StrV(<<>>)),
                                              padded).v,
                       first, second, st))

\* tool_handlers[name](arguments)
ToolHandler(name, arguments, first, second, padded, st) ==
    CASE name = <<"c", "r", "e", "a", "t", "e", "_", "b", "l", "o", "c",
            "k">> -> handle_create_block(arguments, first, st)
      [] name = <<"u", "p", "d", "a", "t", "e", "_", "b", "l", "o", "c",
              "k">> -> handle_update_block(arguments, first, st)
      [] name = <<"d", "e", "l", "e", "t", "e", "_", "b", "l", "o", "c",
              "k">> -> handle_delete_block(arguments, first, st)
      [] name = <<"c", "r", "e", "a", "t", "e", "_", "p", "a", "g",
              "e">> -> handle_create_page(arguments, first, second, st)
      [] name = <<"g", "e", "t", "_", "a", "l", "l", "_", "p", "a", "g", "e",
              "s">> -> handle_get_all_pages(arguments, first, st)
      [] name = <<"g", "e", "t", "_", "p", "a", "g", "e">> -> handle_get_page(arguments,
              first, second, st)
      [] name = <<"g", "e", "t", "_", "j", "o", "u", "r", "n", "a", "l", "_", "p", "a", "g",
              "e">> ->
           handle_get_journal_page(arguments, first, second, padded, st)
      [] name = <<"s", "e", "a", "r", "c", "h", "_", "p", "a", "g", "e",
              "s">> -> handle_search_pages(arguments, first, st)
      [] name = <<"e", "x", "e", "c", "u", "t", "e", "_", "q", "u", "e", "r",
              "y">> -> handle_execute_query(arguments, first, st)

-----------------------------------------------------------------------------
(* handle_call_tool (server.py)                                            *)

\* The keys of tool_handlers.
tool_handlers == {
    <<"c", "r", "e", "a", "t", "e", "_", "b", "l", "o", "c", "k">>,
    <<"u", "p", "d", "a", "t", "e", "_", "b", "l", "o", "c", "k">>,
    <<"d", "e", "l", "e", "t", "e", "_", "b", "l", "o", "c", "k">>,
    <<"c", "r", "e", "a", "t", "e", "_", "p", "a", "g", "e">>,
    <<"g", "e", "t", "_", "a", "l", "l", "_", "p", "a", "g", "e", "s">>,
    <<"g", "e", "t", "_", "p", "a", "g", "e">>,
    <<"g", "e", "t", "_", "j", "o", "u", "r", "n", "a", "l", "_", "p", "a", "g", "e">>,
    <<"s", "e", "a", "r", "c", "h", "_", "p", "a", "g", "e", "s">>,
    <<"e", "x", "e", "c", "u", "t", "e", "_", "q", "u", "e", "r", "y">> }

\* handle_call_tool, the except clause: the exception e has left the try
\* block, in state st.
ExceptClause(name, arguments, e, duration_ms, st) ==
    Leave(LogStep([st EXCEPT !.exc = "none"], "log_tool_invocation",
                  log_tool_invocation(name, arguments, NoneV, e, duration_ms)),
          e.type)

\* handle_call_tool, the try block after the awaited handler returned
\* `result` and the result was logged, leaving the state st.
AfterResultLogged(name, arguments, result, duration_ms, st) ==
    IF st.exc = "none" THEN [st EXCEPT !.v = result]
    ELSE ExceptClause(name, arguments, [t |-> "exc", type |-> st.exc, v |-> <<>>],
                      duration_ms, st)

\* handle_call_tool, the try block after the awaited handler, which left
\* the state st: its result is logged and returned, or its exception is
\* logged and raised again.
AfterHandler(name, arguments, duration_ms, st) ==
    IF st.exc = "none"
    THEN AfterResultLogged(name, arguments, st.v, duration_ms,
             LogStep(st, "log_tool_invocation",
                     log_tool_invocation(name, arguments, st.v, NoneV, duration_ms)))
    ELSE ExceptClause(name, arguments, [t |-> "exc", type |-> st.exc, v |-> str_e(st)],
                      duration_ms, st)

\* handle_call_tool after its first logging call, which left the state st;
\* `first` and `second` are what the upstream gives the handler's requests.
AfterStarted(name, arguments, first, second, padded, duration_ms, st) ==
    IF st.exc # "none" THEN st
    ELSE IF logseq_client = NoneV
    THEN Raising(LogStep(st, "logger",
                         LogRecord(ERROR, <<"L", "o", "g", "s", "e", "q", " ", "c", "l",
                                 "i", "e", "n", "t", " ", "n", "o", "t", " ", "i", "n", "i",
                                 "t", "i", "a", "l", "i", "z", "e", "d">>,
                                   Absent, Absent, FALSE)),
                 "RuntimeError", <<"L", "o", "g", "s", "e", "q", " ", "c", "l", "i", "e",
                         "n", "t", " ", "n", "o", "t", " ", "i", "n", "i", "t", "i", "a",
                         "l", "i", "z", "e", "d">>)
    ELSE IF name \notin tool_handlers
    THEN Raising(LogStep(st, "logger",
                         LogRecord(ERROR, <<"U", "n", "k", "n", "o", "w", "n", " ", "t",
                                 "o", "o", "l", ":", " ">> \o name,
                                   StrV(name), Absent, FALSE)),
                 "ValueError", <<"U", "n", "k", "n", "o", "w", "n", " ", "t", "o", "o", "l",
                         ":", " ">> \o name)
    ELSE AfterHandler(name, arguments, duration_ms,
             Invoke("tool_handler",
                    [name |-> name, arguments |-> arguments, first |-> first,
                     second |-> second, padded |-> padded], st))

\* handle_call_tool(name, arguments) on the heap h.
handle_call_tool(name, arguments, first, second, padded, duration_ms, h) ==
    AfterStarted(name, arguments, first, second, padded, duration_ms,
        LogStep([h |-> h, exc |-> "none", v |-> NoneV, emitted |-> <<>>, calls |-> <<>>],
                "logger",
                LogRecord(INFO, <<"T", "o", "o", "l", " ", "i", "n", "v", "o", "c", "a",
                        "t", "i", "o", "n", " ", "s", "t", "a", "r", "t", "e", "d", ":",
                        " ">> \o name,
                          StrV(name), arguments, FALSE)))

-----------------------------------------------------------------------------
(* The server at work: tool calls, the client's requests, and cleanup.     *)

\* The calls one run makes, and the cleanups.
MaxToolCalls == 1
MaxCleanups == 2

\* The length of a long block content.
LongContent == 520

\* What the Logseq API answers to a request: a body, or a failure of the
\* transport or an HTTP error status, with the text of its exception.
Body(x) == [exc |-> "none", v |-> x]
Upstream == [
    page    |-> Body(DictObj(<<<<<<"n", "a", "m", "e">>, StrV(<<"t", "e", "s", "t", " ",
            "p", "a", "g", "e">>)>>, <<<<"o", "r", "i", "g", "i", "n", "a", "l", "N", "a",
            "m", "e">>, StrV(<<"T", "e", "s", "t", " ", "P", "a", "g", "e">>)>>, <<<<"u",
            "u", "i", "d">>, StrV(<<"1", "2", "3", "-", "4", "5", "6", "-", "7", "8",
            "9">>)>>>>)),
    bare    |-> Body(DictObj(<<<<<<"n", "a", "m", "e">>, StrV(<<"d", "e", "c", " ", "2",
            "5", "t", "h", ",", " ", "2", "0", "2", "3">>)>>, <<<<"j", "o", "u", "r", "n",
            "a", "l", "?">>, BoolV(TRUE)>>>>)),
    pages   |-> Body(ListObj(<<DictObj(<<<<<<"n", "a", "m", "e">>, StrV(<<"t", "e", "s",
            "t", " ", "p", "a", "g", "e">>)>>, <<<<"j", "o", "u", "r", "n", "a", "l", "?">>,
            BoolV(FALSE)>>>>), DictObj(<<<<<<"n", "a", "m", "e">>, StrV(<<"d", "e", "c",
            " ", "2", "5", "t", "h", ",", " ", "2", "0", "2", "3">>)>>, <<<<"j", "o", "u",
            "r", "n", "a", "l", "?">>, BoolV(TRUE)>>>>)>>)),
    blocks  |-> Body(ListObj(<<DictObj(<<<<<<"c", "o", "n", "t", "e", "n", "t">>,
            StrV(<<"S", "e", "c", "r", "e", "t", " ", "b", "l", "o", "c", "k">>)>>, <<<<"u",
            "u", "i", "d">>, StrV(<<"b", "-", "1">>)>>>>)>>)),
    long    |-> Body(ListObj(<<DictObj(<<<<K.content,
                     StrV([i \in 1..LongContent |-> "x"])>>>>)>>)),
    nothing |-> Body(NoneV),
    refused |-> [exc |-> "ConnectError", v |-> StrV(<<"A", "l", "l", " ", "c", "o", "n",
            "n", "e", "c", "t", "i", "o", "n", " ", "a", "t", "t", "e", "m", "p", "t", "s",
            " ", "f", "a", "i", "l", "e", "d">>)],
    status  |-> [exc |-> "HTTPStatusError", v |-> StrV(<<"S", "e", "r", "v", "e", "r", " ",
            "e", "r", "r", "o", "r", " ", "'", "5", "0", "0", " ", "I", "n", "t", "e", "r",
            "n", "a", "l", " ", "S", "e", "r", "v", "e", "r", " ", "E", "r", "r", "o", "r",
            "'", " ", "f", "o", "r", " ", "u", "r", "l", " ", "'", "h", "t", "t", "p", ":",
            "/", "/", "l", "o", "c", "a", "l", "h", "o", "s", "t", ":", "1", "2", "3", "1",
            "5", "/", "a", "p", "i", "'">>)] ]

\* The answers to the first request of a call, and to the one after it.
First == {Upstream.page, Upstream.bare, Upstream.pages, Upstream.nothing,
          Upstream.refused}
Second == {Upstream.blocks, Upstream.long, Upstream.nothing, Upstream.refused}

\* The tool calls: the name, the arguments, whether the handler can make
\* a second request, and whether it formats a date.
ToolCall(name, arguments, two) ==
    [name |-> name, arguments |-> arguments, two |-> two,
     dated |-> name = <<"g", "e", "t", "_", "j", "o", "u", "r", "n", "a", "l", "_", "p",
             "a", "g", "e">>]
ToolCalls == {
    ToolCall(<<"g", "e", "t", "_", "p", "a", "g", "e">>, DictObj(<<<<<<"n", "a", "m", "e">>,
            StrV(<<"T", "e", "s", "t", " ", "P", "a", "g", "e">>)>>>>), TRUE),
    ToolCall(<<"g", "e", "t", "_", "p", "a", "g", "e">>, DictObj(<<<<<<"n", "a", "m", "e">>,
            StrV(<<"T", "e", "s", "t", " ", "P", "a", "g", "e">>)>>, <<<<"i", "n", "c", "l",
            "u", "d", "e", "_", "c", "h", "i", "l", "d", "r", "e", "n">>, BoolV(FALSE)>>>>),
            FALSE),
    ToolCall(<<"g", "e", "t", "_", "p", "a", "g", "e">>, DictObj(<<>>), FALSE),
    ToolCall(<<"g", "e", "t", "_", "p", "a", "g", "e">>, Args.number_name, TRUE),
    ToolCall(<<"g", "e", "t", "_", "j", "o", "u", "r", "n", "a", "l", "_", "p", "a", "g",
            "e">>, DictObj(<<<<<<"d", "a", "t", "e">>, StrV(<<"2", "0", "2", "3", "-", "1",
            "2", "-", "2", "5">>)>>>>), TRUE),
    ToolCall(<<"g", "e", "t", "_", "j", "o", "u", "r", "n", "a", "l", "_", "p", "a", "g",
            "e">>, DictObj(<<<<<<"d", "a", "t", "e">>, StrV(<<"2", "0", "2", "3", "-", "1",
            "2", "-", "2", "5">>)>>, <<<<"i", "n", "c", "l", "u", "d", "e", "_", "c", "h",
            "i", "l", "d", "r", "e", "n">>, BoolV(FALSE)>>>>), FALSE),
    ToolCall(<<"g", "e", "t", "_", "j", "o", "u", "r", "n", "a", "l", "_", "p", "a", "g",
            "e">>, DictObj(<<<<<<"d", "a", "t", "e">>, StrV(<<"t", "o", "m", "o", "r", "r",
            "o", "w">>)>>>>), FALSE),
    ToolCall(<<"c", "r", "e", "a", "t", "e", "_", "b", "l", "o", "c", "k">>,
            DictObj(<<<<<<"c", "o", "n", "t", "e", "n", "t">>, StrV(<<"N", "o", "t",
            "e">>)>>, <<<<"p", "a", "g", "e">>, StrV(<<"T", "e", "s", "t", " ", "P", "a",
            "g", "e">>)>>>>), FALSE),
    ToolCall(<<"c", "r", "e", "a", "t", "e", "_", "b", "l", "o", "c", "k">>,
            DictObj(<<<<<<"c", "o", "n", "t", "e", "n", "t">>, StrV(<<"N", "o", "t",
            "e">>)>>>>), FALSE),
    ToolCall(<<"u", "p", "d", "a", "t", "e", "_", "b", "l", "o", "c", "k">>,
            DictObj(<<<<<<"b", "l", "o", "c", "k", "_", "i", "d">>, StrV(<<"1", "2", "3",
            "-", "4", "5", "6", "-", "7", "8", "9">>)>>, <<<<"c", "o", "n", "t", "e", "n",
            "t">>, StrV(<<"N", "o", "t", "e">>)>>>>), FALSE),
    ToolCall(<<"d", "e", "l", "e", "t", "e", "_", "b", "l", "o", "c", "k">>,
            DictObj(<<<<<<"b", "l", "o", "c", "k", "_", "i", "d">>, StrV(<<"1", "2", "3",
            "-", "4", "5", "6", "-", "7", "8", "9">>)>>>>), FALSE),
    ToolCall(<<"d", "e", "l", "e", "t", "e", "_", "b", "l", "o", "c", "k">>, DictObj(<<>>),
            FALSE),
    ToolCall(<<"c", "r", "e", "a", "t", "e", "_", "p", "a", "g", "e">>, DictObj(<<<<<<"n",
            "a", "m", "e">>, StrV(<<"T", "e", "s", "t", " ", "P", "a", "g", "e">>)>>,
            <<<<"c", "o", "n", "t", "e", "n", "t">>, StrV(<<"N", "o", "t", "e">>)>>>>),
            TRUE),
    ToolCall(<<"g", "e", "t", "_", "a", "l", "l", "_", "p", "a", "g", "e", "s">>,
            DictObj(<<<<<<"i", "n", "c", "l", "u", "d", "e", "_", "j", "o", "u", "r", "n",
            "a", "l", "s">>, BoolV(FALSE)>>>>), FALSE),
    ToolCall(<<"s", "e", "a", "r", "c", "h", "_", "p", "a", "g", "e", "s">>,
            DictObj(<<<<<<"q", "u", "e", "r", "y">>, StrV(<<"t", "e", "s", "t">>)>>,
            <<<<"l", "i", "m", "i", "t">>, IntV(1)>>>>), FALSE),
    ToolCall(<<"e", "x", "e", "c", "u", "t", "e", "_", "q", "u", "e", "r", "y">>,
            DictObj(<<<<<<"q", "u", "e", "r", "y">>, StrV(<<"(", "f", "i", "n", "d", " ",
            "?", "b", ")">>)>>>>), FALSE),
    ToolCall(<<"n", "o", "_", "s", "u", "c", "h", "_", "t", "o", "o", "l">>,
            DictObj(<<<<<<"n", "a", "m", "e">>, StrV(<<"T", "e", "s", "t", " ", "P", "a",
            "g", "e">>)>>>>), FALSE) }

\* The state of a function when it is called on the heap h.
Entered(h) == [h |-> h, exc |-> "none", v |-> NoneV, emitted |-> <<>>, calls |-> <<>>]

\* The calls made so far, the cleanups apart.
Made(ops) == Cardinality({i \in 1..Len(events) : events[i].op \in ops})
CallOps == {"handle_call_tool", "tool_handler", "log_tool_invocation", "client"}

\* A function was called with `input` and is over in state st: what the
\* variables hold then.
Over(op, name, input, h0, st) ==
    /\ heap0' = h0
    /\ heap' = st.h
    /\ emitted' = emitted \o st.emitted
    /\ exc' = st.exc
    /\ pc' = IF st.exc = "none" THEN "returned" ELSE "raised"
    /\ events' = Append(events, [op |-> op, name |-> name, input |-> input,
                                 client |-> logseq_client # NoneV,
                                 calls |-> st.calls, exc |-> st.exc, v |-> st.v])
    /\ UNCHANGED <<privacy_filter, env_debug, root_level, handlers, settings, hi, record0,
                   record, filterLog, call, out, tokens>>

\* initialize_logseq_client after the connection was tried, which left the
\* state st: a failure of the try is logged and the function returns.  The
\* graph is left out of the message of the success.
Connected(st) ==
    [(IF st.exc = "none"
      THEN LogStep(st, "logger",
                   LogRecord(INFO, <<"S", "u", "c", "c", "e", "s", "s", "f", "u", "l", "l",
                           "y", " ", "c", "o", "n", "n", "e", "c", "t", "e", "d", " ", "t",
                           "o", " ", "L", "o", "g", "s", "e", "q", " ", "g", "r", "a", "p",
                           "h", ":", " ">>,
                             Absent, Absent, FALSE))
      ELSE LogStep(LogStep([st EXCEPT !.exc = "none"], "logger",
                           LogRecord(ERROR, <<"F", "a", "i", "l", "e", "d", " ", "t", "o",
                                   " ", "c", "o", "n", "n", "e", "c", "t", " ", "t", "o",
                                   " ", "L", "o", "g", "s", "e", "q", ":",
                                   " ">> \o str_e(st),
                                     Absent, Absent, TRUE)),
                   "logger",
                   LogRecord(WARNING,
                             <<"C", "o", "n", "t", "i", "n", "u", "i", "n", "g", " ", "w",
                                     "i", "t", "h", " ", "i", "n", "i", "t", "i", "a", "l",
                                     "i", "z", "a", "t", "i", "o", "n", ",", " ", "b", "u",
                                     "t", " ", "A", "P", "I", " ", "c", "a", "l", "l", "s",
                                     " ", "m", "a", "y", " ", "f", "a", "i", "l">>,
                             Absent, Absent, FALSE)))
     EXCEPT !.v = NoneV]

\* initialize_logseq_client before the client is made, in state st: the
\* configuration is logged, and a warning when there is no token.
Configuration(token, st) ==
    LogStep(LogStep(st, "logger",
                    LogRecord(INFO, <<"I", "n", "i", "t", "i", "a", "l", "i", "z", "i", "n",
                            "g", " ", "L", "o", "g", "s", "e", "q", " ", "M", "C", "P", " ",
                            "s", "e", "r", "v", "e", "r">>,
                              Absent, Absent, FALSE)),
            "logger",
            LogRecord(INFO,
                      <<"L", "o", "g", "s", "e", "q", " ", "A", "P", "I", " ", "c", "o",
                              "n", "f", "i", "g", "u", "r", "a", "t", "i", "o", "n", ":",
                              " ", "h", "o", "s", "t", "=", "l", "o", "c", "a", "l", "h",
                              "o", "s", "t", ",", " ", "p", "o", "r", "t", "=", "1", "2",
                              "3", "1", "5", ",", " ", "t", "o", "k", "e", "n", "=">>
                      \o (IF Truthy(<<>>, token) THEN <<"s", "e", "t">> ELSE <<"n", "o",
                              "t", " ", "s", "e", "t">>),
                      Absent, Absent, FALSE))
TokenChecked(token, st) ==
    IF Truthy(<<>>, token) THEN st
    ELSE LogStep(st, "logger",
                 LogRecord(WARNING, <<"L", "O", "G", "S", "E", "Q", "_", "A", "P", "I", "_",
                         "T", "O", "K", "E", "N", " ", "n", "o", "t", " ", "s", "e", "t",
                         ",", " ", "A", "P", "I", " ", "c", "a", "l", "l", "s", " ", "m",
                         "a", "y", " ", "f", "a", "i", "l">>,
                           Absent, Absent, FALSE))

\* initialize_logseq_client(), the environment holding `token` and the
\* upstream giving `response` to the request for the current graph.
initialize_logseq_client(token, response, st) ==
    Connected(Request(<<"l", "o", "g", "s", "e", "q", ".", "E", "d", "i", "t", "o", "r",
            ".", "g", "e", "t", "C", "u", "r", "r", "e", "n", "t", "G", "r", "a", "p",
            "h">>, Absent, response,
                      Debug(<<"T", "e", "s", "t", "i", "n", "g", " ", "L", "o", "g", "s",
                              "e", "q", " ", "A", "P", "I", " ", "c", "o", "n", "n", "e",
                              "c", "t", "i", "o", "n", ".", ".", ".">>,
                            TokenChecked(token, Configuration(token, st)))))

\* The function f called with x in state st: a logging call, a method of
\* the client, a tool handler, handle_call_tool, initialize_logseq_client.
Invoke(f, x, st) ==
    CASE f = "logging" ->
           IF st.exc # "none" THEN st
           ELSE AfterLog(st, x.via, x.record,
                         Log(root_level, handlers, privacy_filter, st.h, x.record))
      [] f = "create_page" -> create_page(x.kw, x.response, x.second, st)
      [] f \in DOMAIN Action \ {"create_page"} -> ClientMethod(f, x.kw, x.response, st)
      [] f = "tool_handler" ->
           ToolHandler(x.name, x.arguments, x.first, x.second, x.padded, st)
      [] f = "handle_call_tool" ->
           handle_call_tool(x.name, x.arguments, x.first, x.second, x.padded,
                            x.duration_ms, st.h)
      [] f = "initialize_logseq_client" ->
           initialize_logseq_client(x.token, x.response, st)

\* initialize_logseq_client is called: the client is made, and the
\* connection tried.  main() calls it once, before it serves.
InitializeLogseqClient ==
    /\ pc \in {"idle", "returned", "raised"}
    /\ events = <<>>
    /\ \E token \in {NoneV, StrV(<<"t">>)},
          response \in {Body(DictObj(<<<<K.name, StrV(<<"g">>)>>>>)), Upstream.refused} :
          /\ logseq_client' = [token |-> token]
          /\ Over("initialize_logseq_client", <<>>, response.exc, <<>>,
                  Invoke("initialize_logseq_client",
                         [token |-> token, response |-> response], Entered(<<>>)))

\* cleanup: the client is closed and unset, when there is one.  A run ends
\* with its tool calls, so the cleanups come before them.
Cleanup ==
    /\ pc \in {"idle", "returned", "raised"}
    /\ Made({"cleanup"}) < MaxCleanups
    /\ Made(CallOps) = 0
    /\ logseq_client' = NoneV
    /\ Over("cleanup", IF logseq_client # NoneV THEN <<"c", "l", "o", "s", "e">> ELSE <<>>,
            NoneV, <<>>,
            Entered(<<>>))

\* The answers the upstream has ready for a call: one is enough while there
\* is no client to ask for it.
Answering(answers) ==
    IF logseq_client = NoneV THEN {CHOOSE r \in answers : r.exc = "none" /\ r.v # NoneV}
    ELSE answers

\* A tool call arrives: handle_call_tool(name, arguments), whole, with the
\* handler it awaits and the requests the handler makes.
HandleCallTool ==
    /\ pc \in {"idle", "returned", "raised"}
    /\ Made(CallOps) < MaxToolCalls
    /\ \E c \in ToolCalls, first \in Answering(First) :
       \E second \in IF c.two THEN Answering(Second) ELSE {Upstream.nothing},
          padded \in IF c.dated THEN BOOLEAN ELSE {TRUE} :
       \E a \in {Alloc(<<>>, c.arguments)} :
          /\ Over("handle_call_tool", c.name,
                  [arguments |-> a.v, first |-> first, second |-> second], a.h,
                  Invoke("handle_call_tool",
                         [name |-> c.name, arguments |-> a.v, first |-> first,
                          second |-> second, padded |-> padded,
                          duration_ms |-> IntV(12)], Entered(a.h)))
          /\ UNCHANGED logseq_client

\* A tool handler is called by itself: tool_handlers[name](arguments).
CallToolHandler ==
    /\ pc \in {"idle", "returned", "raised"}
    /\ Made(CallOps) < MaxToolCalls
    /\ \E c \in {t \in ToolCalls : t.name \in tool_handlers},
          first \in Answering({Upstream.page, Upstream.nothing, Upstream.refused}) :
       \E second \in IF c.two THEN Answering({Upstream.blocks, Upstream.refused})
                     ELSE {Upstream.nothing},
          padded \in IF c.dated THEN BOOLEAN ELSE {TRUE} :
       \E a \in {Alloc(<<>>, c.arguments)} :
          /\ Over("tool_handler", c.name,
                  [arguments |-> a.v, first |-> first, second |-> second], a.h,
                  Invoke("tool_handler",
                         [name |-> c.name, arguments |-> a.v, first |-> first,
                          second |-> second, padded |-> padded], Entered(a.h)))
          /\ UNCHANGED logseq_client

\* A direct call log_tool_invocation(logger, tool_name, arguments, result,
\* error, duration_ms).
LogToolInvocation ==
    /\ pc \in {"idle", "returned", "raised"}
    /\ Made(CallOps) < MaxToolCalls
    /\ \E arguments \in {Args.scenario, Args.empty},
          result \in {NoneV, Res.page},
          error \in {NoneV, [t |-> "exc", type |-> "ValueError",
                             v |-> <<"b", "o", "o", "m">>]},
          duration_ms \in {NoneV, IntV(0), IntV(12)} :
       \E a \in {Alloc(<<>>, arguments)} :
       \E r \in {Alloc(a.h, result)} :
          /\ Over("log_tool_invocation", <<"g", "e", "t", "_", "p", "a", "g", "e">>,
                  [arguments |-> a.v, result |-> r.v, error |-> error,
                   duration_ms |-> duration_ms], r.h,
                  LogStep(Entered(r.h), "log_tool_invocation",
                          log_tool_invocation(<<"g", "e", "t", "_", "p", "a", "g", "e">>,
                                              a.v, r.v, error, duration_ms)))
          /\ UNCHANGED logseq_client

\* The keyword arguments a method of the client is called with.
MethodCalls == [
    get_page        |-> [Keywords EXCEPT !.name = StrV(<<"T", "e", "s", "t", " ", "P", "a",
            "g", "e">>)],
    get_page_blocks |-> [Keywords EXCEPT !.name = StrV(<<"T", "e", "s", "t", " ", "P", "a",
            "g", "e">>)],
    get_all_pages   |-> Keywords,
    search_pages    |-> [Keywords EXCEPT !.query = StrV(<<"t", "e", "s", "t">>)],
    execute_query   |-> [Keywords EXCEPT !.query = StrV(<<"(", "f", "i", "n", "d", " ", "?",
            "b", ")">>)],
    create_block    |-> [Keywords EXCEPT !.content = StrV(<<"N", "o", "t", "e">>),
                                         !.page = StrV(<<"T", "e", "s", "t", " ", "P", "a",
                                                 "g", "e">>)],
    update_block    |-> [Keywords EXCEPT !.block_id = StrV(<<"1", "2", "3", "-", "4", "5",
            "6", "-", "7", "8", "9">>),
                                         !.content = StrV(<<"N", "o", "t", "e">>)],
    delete_block    |-> [Keywords EXCEPT !.block_id = StrV(<<"1", "2", "3", "-", "4", "5",
            "6", "-", "7", "8", "9">>)],
    create_page     |-> [Keywords EXCEPT !.name = StrV(<<"T", "e", "s", "t", " ", "P", "a",
            "g", "e">>),
                                         !.content = StrV(<<"N", "o", "t", "e">>)] ]

\* A method of the client is called, and the upstream answers its request
\* with a body, or fails with an HTTP status or in the transport.
ClientCall ==
    /\ pc \in {"idle", "returned", "raised"}
    /\ Made(CallOps) < MaxToolCalls
    /\ logseq_client # NoneV
    /\ \E method \in DOMAIN MethodCalls,
          response \in First \cup {Upstream.long, Upstream.status} :
       \E second \in IF method = "create_page" THEN {Upstream.page, Upstream.refused}
                     ELSE {Upstream.nothing} :
          /\ Over("client", method, response.exc, <<>>,
                  Invoke(method, [kw |-> MethodCalls[method], response |-> response,
                                  second |-> second], Entered(<<>>)))
          /\ UNCHANGED logseq_client

\* The server after its import: setup_logging has run, no client yet.
ToolInit ==
    \E mode \in LoggingModes, log_level \in {INFO, WARNING} :
        /\ log_level = WARNING => mode = PRIVACY
        /\ Configured(log_level, mode, FALSE)

ToolNext ==
    \/ InitializeLogseqClient
    \/ HandleCallTool
    \/ CallToolHandler
    \/ LogToolInvocation
    \/ ClientCall
    \/ Cleanup

ToolSpec == ToolInit /\ [][ToolNext]_vars

-----------------------------------------------------------------------------
(* Properties.                                                             *)

\* C1: PrivacyFilter.filter and LogSanitizer.sanitize_dict never mutate the
\* caller's data: every object that existed when the call was made is still
\* what it was (its children being the same objects), so `arguments` and
\* `result` as the caller attached them, and the input of sanitize_dict,
\* are equal at every depth to what they were; what sanitize_dict returns
\* is a new object.
C1_CallerDataNeverMutated ==
    /\ Len(heap) >= Len(heap0)
    /\ \A a \in 1..Len(heap0) : heap[a] = heap0[a]
    /\ Deref(heap, record0.arguments) = Deref(heap0, record0.arguments)
    /\ Deref(heap, record0.result) = Deref(heap0, record0.result)
    /\ (call.method = "dict" /\ out.exc = "none") =>
          /\ out.v.t = "ref"
          /\ out.v.v > Len(heap0)
          /\ Deref(heap, call.arg) = Deref(heap0, call.arg)

\* A PRIVACY-mode logging call has returned; the record carried a result
\* and arguments, and the filter has put sanitized copies in their place.
C1_Witness ==
    /\ privacy_filter.mode = PRIVACY
    /\ pc = "returned"
    /\ record0.arguments.t = "ref"
    /\ record0.result.t = "ref"
    /\ record.arguments # record0.arguments
    /\ record.result # record0.result
    /\ Deref(heap, record.result) # Deref(heap, record0.result)
    /\ Deref(heap, record.arguments) # Deref(heap, record0.arguments)

\* The formatter of the handler called `name`.
FormatterOf(name) == (CHOOSE hd \in Range(handlers) : hd.name = name).formatter

\* C2: in PRIVACY mode every sink that writes the record writes the message,
\* `arguments` and `result` that one pass of the filter makes of the
\* caller's original values.
C2_EachSinkSanitizesOnce ==
    (privacy_filter.mode = PRIVACY /\ call.method = "none") =>
        \A i \in 1..Len(emitted) :
            emitted[i].out = Format(FormatterOf(emitted[i].handler),
                                    PrivacyFilter_filter(privacy_filter, heap0, record0).h,
                                    PrivacyFilter_filter(privacy_filter, heap0, record0).record)

\* C3: under the PRIVACY pipeline no logging call raises into its caller.
C3_LoggingCallReturns ==
    (privacy_filter.mode = PRIVACY /\ call.method = "none") => pc # "raised"

\* C4: sanitize_dict never raises for a JSON-like mapping, whatever the keys
\* and the rule set.
C4_SanitizeDictNeverRaises == call.method = "dict" => out.exc = "none"

\* One pass of the PRIVACY filter is done on the record of the scenario:
\* message "Getting page: My Secret Plan", arguments
\* {"page_name": "My Secret Plan", "content": "twenty char string!!"}.
C5_ScenarioFiltered ==
    /\ privacy_filter.mode = PRIVACY
    /\ call.method = "none"
    /\ record0.msg = StrV(<<"G", "e", "t", "t", "i", "n", "g", " ", "p", "a", "g", "e", ":",
                            " ", "M", "y", " ", "S", "e", "c", "r", "e", "t", " ", "P", "l",
                            "a", "n">>)
    /\ record0.arguments.t = "ref"
    /\ Deref(heap0, record0.arguments) =
          DictObj(<< <<K.page_name, StrV(<<"M", "y", " ", "S", "e", "c", "r", "e", "t", " ",
                                           "P", "l", "a", "n">>)>>,
                     <<K.content, StrV(<<"t", "w", "e", "n", "t", "y", " ", "c", "h", "a",
                                         "r", " ", "s", "t", "r", "i", "n", "g", "!",
                                         "!">>)>> >>)
    /\ Len(filterLog) = 1
    /\ filterLog[1].outcome = "True"

\* What the scenario's record is after that pass, `marker` being what stands
\* for the content.
ScenarioOutcome(marker) ==
    /\ record.msg = StrV(<<"G", "e", "t", "t", "i", "n", "g", " ", "p", "a", "g", "e", ":",
                           " ", "M", "y", " ", "*", "*", "*", "l", "a", "n">>)
    /\ Deref(heap, record.arguments) =
          DictObj(<< <<K.page_name, StrV(<<"M", "y", " ", "*", "*", "*", "l", "a", "n">>)>>,
                     <<K.content, StrV(marker)>> >>)
    /\ Deref(heap, record0.arguments) = Deref(heap0, record0.arguments)

\* C5 (amended): the scenario's record comes out of filter() with the page
\* name masked in the message and in arguments["page_name"], with
\* arguments["content"] equal to [content_20_chars], the length of the
\* 20-character content, and with the caller's mapping unchanged.
C5_Scenario ==
    C5_ScenarioFiltered =>
        ScenarioOutcome(<<"[", "c", "o", "n", "t", "e", "n", "t", "_", "2", "0", "_", "c",
                          "h", "a", "r", "s", "]">>)

\* C5 as stated: arguments["content"] equal to [content_21_chars].
C5_AsStated ==
    C5_ScenarioFiltered =>
        ScenarioOutcome(<<"[", "c", "o", "n", "t", "e", "n", "t", "_", "2", "1", "_", "c",
                          "h", "a", "r", "s", "]">>)

\* C6: filter() returns False in MINIMAL mode for a record below WARNING,
\* and True for every other record and in every other mode.
C6_FilterVerdictByMode ==
    \A i \in 1..Len(filterLog) :
        filterLog[i].outcome =
            IF privacy_filter.mode = MINIMAL /\ filterLog[i].levelno < WARNING
            THEN "False" ELSE "True"

\* C7: in DEBUG mode, and in MINIMAL mode, filter() leaves the record's
\* message, `arguments` and `result` as they were attached, and makes no
\* copy: the record and the objects are those of the call.
C7_OtherModesLeaveRecord ==
    (privacy_filter.mode # PRIVACY /\ call.method = "none") =>
        /\ record = record0
        /\ heap = heap0

\* MINIMAL mode has accepted a record that carries arguments and a result,
\* and a sink has written it.
C7_Witness ==
    /\ privacy_filter.mode = MINIMAL
    /\ record0.arguments.t = "ref"
    /\ record0.result.t = "ref"
    /\ Len(filterLog) > 0
    /\ filterLog[1].outcome = "True"
    /\ Len(emitted) > 0

\* The number a decimal numeral stands for.
RECURSIVE DecimalValue(_)
DecimalValue(digits) ==
    IF digits = <<>> THEN 0
    ELSE 10 * DecimalValue(SubSeq(digits, 1, Len(digits) - 1))
         + (CHOOSE d \in 0..9 : DigitChars[d + 1] = digits[Len(digits)])

\* s is prefix, the decimal numeral of n, and "_chars]".
IsLengthMarker(s, prefix, n) ==
    LET suffix == <<"_", "c", "h", "a", "r", "s", "]">>
        digits == SubSeq(s, Len(prefix) + 1, Len(s) - Len(suffix))
    IN  /\ Len(s) > Len(prefix) + Len(suffix)
        /\ SubSeq(s, 1, Len(prefix)) = prefix
        /\ SubSeq(s, Len(s) - Len(suffix) + 1, Len(s)) = suffix
        /\ \A i \in 1..Len(digits) : digits[i] \in ReDigit
        /\ digits[1] # "0" \/ Len(digits) = 1
        /\ DecimalValue(digits) = n

\* The outcome of the last call is the length marker of its argument.
LengthMarkerReturned ==
    /\ out.exc = "none"
    /\ IsStr(out.v)
    /\ IsLengthMarker(out.v.v,
                      IF call.method = "content"
                      THEN <<"[", "c", "o", "n", "t", "e", "n", "t", "_">>
                      ELSE <<"[", "d", "a", "t", "a", "l", "o", "g", "_", "q", "u", "e", "r",
                             "y", "_">>,
                      Len(call.arg.v))

\* C8 (amended): for every non-empty string s of length N, sanitize_content
\* returns [content_N_chars] and sanitize_query [datalog_query_N_chars]; the
\* empty string gives [empty].
C8_LengthMarkers ==
    (call.method \in {"content", "query"} /\ IsStr(call.arg)) =>
        IF call.arg.v # <<>> THEN LengthMarkerReturned
        ELSE out = [exc |-> "none", v |-> StrV(<<"[", "e", "m", "p", "t", "y", "]">>)]

\* sanitize_query has returned the marker of a query of ten characters or more.
C8_Witness ==
    /\ call.method = "query"
    /\ IsStr(call.arg)
    /\ Len(call.arg.v) >= 10
    /\ LengthMarkerReturned

\* C8 as stated: the marker for every string, the empty one included.
C8_AsStated ==
    (call.method \in {"content", "query"} /\ IsStr(call.arg)) => LengthMarkerReturned

\* C9 (amended): for every min_mask_length, a journal-shaped name longer
\* than min_mask_length gives [journal_page]; one of at most that length is
\* returned unchanged.
C9_JournalNames ==
    (call.method = "page_name" /\ IsStr(call.arg) /\ call.arg.v \in JournalNames) =>
        /\ out.exc = "none"
        /\ out.v = IF Len(call.arg.v) > call.self.min_mask_length
                   THEN StrV(<<"[", "j", "o", "u", "r", "n", "a", "l", "_", "p", "a", "g",
                               "e", "]">>)
                   ELSE call.arg

\* "Jul 1st, 2024" has been sanitized by an instance whose min_mask_length
\* is one below its length, and the marker has come back.
C9_Witness ==
    /\ call.method = "page_name"
    /\ call.arg = StrV(<<"J", "u", "l", " ", "1", "s", "t", ",", " ", "2", "0", "2", "4">>)
    /\ call.self.min_mask_length = 12
    /\ out.v = StrV(<<"[", "j", "o", "u", "r", "n", "a", "l", "_", "p", "a", "g", "e", "]">>)

\* C9 as stated: the journal marker whatever the length.
C9_AsStated ==
    (call.method = "page_name" /\ IsStr(call.arg) /\ call.arg.v \in JournalNames) =>
        out.v = StrV(<<"[", "j", "o", "u", "r", "n", "a", "l", "_", "p", "a", "g", "e", "]">>)

\* x is block_ followed by six hexadecimal characters.
IsBlockToken(x) ==
    /\ IsStr(x)
    /\ Len(x.v) = 12
    /\ SubSeq(x.v, 1, 6) = <<"b", "l", "o", "c", "k", "_">>
    /\ \A i \in 7..12 : x.v[i] \in ReDigit \cup {"a", "b", "c", "d", "e", "f"}

\* The same id has given the same token on every call so far, whatever the
\* instance.
SameIdSameToken ==
    \A i, j \in 1..Len(tokens) :
        tokens[i].id = tokens[j].id => tokens[i].token = tokens[j].token

\* C10 (amended): sanitize_block_id gives the same token for the same id on
\* every call and every instance, and for a non-empty id the token is
\* block_ followed by exactly 6 hexadecimal characters; an empty id gives
\* [empty].
C10_BlockIdTokens ==
    /\ SameIdSameToken
    /\ \A i \in 1..Len(tokens) :
          /\ tokens[i].exc = "none"
          /\ IF Truthy(<<>>, tokens[i].id) THEN IsBlockToken(tokens[i].token)
             ELSE tokens[i].token = StrV(<<"[", "e", "m", "p", "t", "y", "]">>)

\* Two instances of different min_mask_length have been given the id
\* 123-456-789, and both have answered block_5de748.
C10_Witness ==
    /\ Len(tokens) = 2
    /\ tokens[1].self # tokens[2].self
    /\ tokens[1].id = StrV(<<"1", "2", "3", "-", "4", "5", "6", "-", "7", "8", "9">>)
    /\ tokens[2].id = tokens[1].id
    /\ tokens[2].token = StrV(<<"b", "l", "o", "c", "k", "_", "5", "d", "e", "7", "4", "8">>)

\* C10 as stated: every output is block_ and six hexadecimal characters.
C10_AsStated ==
    /\ SameIdSameToken
    /\ \A i \in 1..Len(tokens) : IsBlockToken(tokens[i].token)


\* One pass of the PRIVACY filter is done, and has returned, on a record
\* whose result is a mapping.
ResultFiltered ==
    /\ privacy_filter.mode = PRIVACY
    /\ call.method = "none"
    /\ Len(filterLog) = 1
    /\ filterLog[1].outcome = "True"
    /\ IsDict(heap0, record0.result)

\* What filter() is to make of the entry <<key, value>> of a result, both
\* as trees: page.originalName sanitized, the lists `pages` and `results`
\* counted, every other entry as it is.
ExpectedEntry(self, key, value) ==
    IF key = <<"p", "a", "g", "e">> /\ value.t = "dict"
       /\ HasKey(value.v, <<"o", "r", "i", "g", "i", "n", "a", "l", "N", "a", "m", "e">>)
    THEN DictObj([i \in 1..Len(value.v) |->
                    IF value.v[i][1] = <<"o", "r", "i", "g", "i", "n", "a", "l", "N", "a",
                                         "m", "e">>
                    THEN <<value.v[i][1],
                           sanitize_page_name(self.sanitizer, <<>>, value.v[i][2]).v>>
                    ELSE value.v[i]])
    ELSE IF key = <<"p", "a", "g", "e", "s">> /\ value.t = "list"
    THEN StrV(<<"[", "l", "i", "s", "t", "_", "w", "i", "t", "h", "_">>
              \o IntToStr(Len(value.v)) \o <<"_", "p", "a", "g", "e", "s", "]">>)
    ELSE IF key = <<"r", "e", "s", "u", "l", "t", "s">> /\ value.t = "list"
    THEN StrV(<<"[", "l", "i", "s", "t", "_", "w", "i", "t", "h", "_">>
              \o IntToStr(Len(value.v)) \o <<"_", "r", "e", "s", "u", "l", "t", "s", "]">>)
    ELSE value

\* C11: in PRIVACY mode, after filter() the record's mapping result has
\* page.originalName replaced by its sanitized page name, `pages` and
\* `results` replaced by the count marker of the original list when they
\* are lists, and every other entry equal to the original's.
C11_ResultSanitized ==
    ResultFiltered =>
        /\ IsDict(heap, record.result)
        /\ Len(Deref(heap, record.result).v) = Len(Deref(heap0, record0.result).v)
        /\ \A i \in 1..Len(Deref(heap0, record0.result).v) :
              Deref(heap, record.result).v[i] =
                 <<Deref(heap0, record0.result).v[i][1],
                   ExpectedEntry(privacy_filter, Deref(heap0, record0.result).v[i][1],
                                 Deref(heap0, record0.result).v[i][2])>>

\* The filter has sanitized a result that holds a page with an
\* originalName, three pages and two results.
C11_Witness ==
    /\ ResultFiltered
    /\ Deref(heap0, record0.result) = Res.page
    /\ GetItem(Deref(heap, record.result).v, K.page).v[1][2] =
          StrV(<<"M", "y", " ", "*", "*", "*", "a", "g", "e">>)
    /\ GetItem(Deref(heap, record.result).v, K.pages) =
          StrV(<<"[", "l", "i", "s", "t", "_", "w", "i", "t", "h", "_", "3", "_", "p", "a",
                 "g", "e", "s", "]">>)
    /\ GetItem(Deref(heap, record.result).v, K.results) =
          StrV(<<"[", "l", "i", "s", "t", "_", "w", "i", "t", "h", "_", "2", "_", "r", "e",
                 "s", "u", "l", "t", "s", "]">>)

\* The directory prefixes after which a segment is to be masked, in lower
\* case, each with its separator.
MaskedAfter ==
    { [prefix |-> <<"/", "h", "o", "m", "e", "/">>, sep |-> "/"],
      [prefix |-> <<"/", "u", "s", "e", "r", "s", "/">>, sep |-> "/"],
      [prefix |-> <<"c", ":", "\\", "u", "s", "e", "r", "s", "\\">>, sep |-> "\\"],
      [prefix |-> <<"\\", "u", "s", "e", "r", "s", "\\">>, sep |-> "\\"],
      [prefix |-> <<"/", "g", "r", "a", "p", "h", "s", "/">>, sep |-> "/"],
      [prefix |-> <<"\\", "g", "r", "a", "p", "h", "s", "\\">>, sep |-> "\\"] }

\* The separators of the segments of s that start at index j, directly
\* after one of the prefixes (in any case).
SegmentAt(s, j) ==
    {d.sep : d \in {d \in MaskedAfter :
                      /\ j > Len(d.prefix)
                      /\ j <= Len(s)
                      /\ s[j] # d.sep
                      /\ Lower(SubSeq(s, j - Len(d.prefix), j - 1)) = d.prefix}}

\* s from index j on, with every such segment replaced by *** and every
\* other character as it is.
RECURSIVE MaskSegments(_, _)
MaskSegments(s, j) ==
    IF j > Len(s) THEN <<>>
    ELSE IF SegmentAt(s, j) # {}
    THEN <<"*", "*", "*">>
         \o MaskSegments(s, RunEnd(s, j, {CHOOSE sep \in SegmentAt(s, j) : TRUE}, FALSE))
    ELSE <<s[j]>> \o MaskSegments(s, j + 1)

\* C12: sanitize_path replaces by *** every segment that directly follows
\* a home-directory or graphs prefix of the input, matched in any case,
\* and leaves every other character of the path unchanged.
C12_PathSegmentsMasked ==
    (call.method = "path" /\ IsStr(call.arg) /\ call.arg.v # <<>>) =>
        out = [exc |-> "none", v |-> StrV(MaskSegments(call.arg.v, 1))]

\* The call of setup_logging that returned last.
SetupDone == events # <<>> /\ events[Len(events)].op = "setup_logging"
LastArgs == events[Len(events)].args
LastEnv == events[Len(events)].env

\* a when it is given (not None), else b.
Prefer(a, b) == IF a # NoneV THEN a ELSE b

\* The two names of the default log file.
DefaultPaths == {LogFilePath(NoneV, IntV(1), LastEnv.today),
                 LogFilePath(NoneV, NoneV, LastEnv.today)}

\* C13 as stated: for each setting an explicitly passed argument takes
\* precedence over the environment variable.
C13_AsStated ==
    SetupDone =>
        /\ settings.log_level = LastArgs.log_level
        /\ LastArgs.log_file # NoneV => settings.path = LastArgs.log_file
        /\ LastArgs.log_mode \notin {NoneV, StrV(<<>>)} =>
               settings.mode = ModeNamed(Lower(LastArgs.log_mode.v))
        /\ LastArgs.max_file_size # NoneV => settings.max_file_size = LastArgs.max_file_size
        /\ LastArgs.retention_days # NoneV =>
               settings.retention_days = LastArgs.retention_days

\* The value of the environment variable `name` as a number, read by
\* `parse`; None when the variable is unset, empty or unparseable.
EnvNumber(name, parse(_)) ==
    IF LastEnv[name] \in {NoneV, StrV(<<>>)} THEN NoneV
    ELSE IF parse(LastEnv[name].v).exc # "none" THEN NoneV
    ELSE parse(LastEnv[name].v).v

\* C13: for each setting resolved by setup_logging the environment variable,
\* when it is set (and, for the maximum file size and the retention days,
\* holds a parseable number), takes precedence over the explicitly passed
\* argument, which takes precedence over the built-in default.
C13_EnvironmentFirst ==
    SetupDone =>
        /\ settings.log_level = Prefer(LastEnv.LOGSEQ_MCP_LOG_LEVEL, LastArgs.log_level)
        /\ settings.level = LevelNamed(Upper(settings.log_level.v))
        /\ IF LastEnv.LOGSEQ_MCP_LOG_FILE # NoneV
           THEN settings.path = LastEnv.LOGSEQ_MCP_LOG_FILE
           ELSE IF LastArgs.log_file # NoneV THEN settings.path = LastArgs.log_file
           ELSE settings.path \in DefaultPaths
        /\ settings.mode =
              IF LastEnv.LOGSEQ_MCP_LOG_MODE # NoneV
              THEN ModeNamed(Lower(LastEnv.LOGSEQ_MCP_LOG_MODE.v))
              ELSE IF LastArgs.log_mode \notin {NoneV, StrV(<<>>)}
              THEN ModeNamed(Lower(LastArgs.log_mode.v))
              ELSE PRIVACY
        /\ settings.max_file_size =
              Prefer(EnvNumber("LOGSEQ_MCP_LOG_MAX_SIZE", parse_size),
                     Prefer(LastArgs.max_file_size, IntV(10 * 1024 * 1024)))
        /\ settings.retention_days =
              Prefer(EnvNumber("LOGSEQ_MCP_LOG_RETENTION_DAYS", PyInt),
                     LastArgs.retention_days)

\* A call with every setting given both ways, and differently: the
\* environment's values are the resolved ones.
C13_Witness ==
    /\ SetupDone
    /\ LastArgs.log_level = StrV(<<"E", "R", "R", "O", "R">>)
    /\ LastArgs.log_file = StrV(<<"a", "r", "g", ".", "l", "o", "g">>)
    /\ LastArgs.max_file_size = IntV(1000)
    /\ LastArgs.retention_days = IntV(3)
    /\ LastEnv.LOGSEQ_MCP_LOG_LEVEL = StrV(<<"d", "e", "b", "u", "g">>)
    /\ LastEnv.LOGSEQ_MCP_LOG_MAX_SIZE = StrV(<<"5", "M", "B">>)
    /\ settings.level = DEBUG
    /\ settings.path = StrV(<<"e", "n", "v", ".", "l", "o", "g">>)
    /\ settings.max_file_size = IntV(5242880)
    /\ settings.retention_days = IntV(7)
    /\ settings.rotation.kind = "TimedRotatingFileHandler"

\* The environment variable `name` is set and `parse` raises on its value.
Unparseable(name, parse(_)) ==
    LastEnv[name] # NoneV /\ parse(LastEnv[name].v).exc # "none"

\* The mode that is configured, by the environment or else by the argument,
\* names no logging mode.
UnrecognizedMode ==
    Lower(Prefer(LastEnv.LOGSEQ_MCP_LOG_MODE,
                 Prefer(LastArgs.log_mode, StrV(<<"p", "r", "i", "v", "a", "c", "y">>))).v)
        \notin {<<"p", "r", "i", "v", "a", "c", "y">>, <<"d", "e", "b", "u", "g">>,
                <<"m", "i", "n", "i", "m", "a", "l">>}

\* The call returned and the root logger has its file and stderr sinks.
SinksInstalled ==
    /\ exc = "none"
    /\ pc = "returned"
    /\ Len(handlers) >= 2
    /\ handlers[1].name = "file"
    /\ handlers[2].name = "stderr"

\* C14 as stated: an unparseable size, an unrecognized mode or an
\* unparseable retention make the setting take its built-in default.
C14_AsStated ==
    SetupDone =>
        /\ SinksInstalled
        /\ Unparseable("LOGSEQ_MCP_LOG_MAX_SIZE", parse_size) =>
               settings.max_file_size = IntV(10 * 1024 * 1024)
        /\ UnrecognizedMode => settings.mode = PRIVACY
        /\ Unparseable("LOGSEQ_MCP_LOG_RETENTION_DAYS", PyInt) =>
               settings.retention_days = NoneV

\* C14: setup_logging never raises on an invalid configuration value, and
\* the sinks are still installed: an unrecognized mode gives PRIVACY; an
\* unparseable size or retention value of the environment leaves the
\* explicitly passed argument in force, and the built-in default (10 MiB, no
\* retention) only when no argument was passed.
C14_InvalidValuesRecovered ==
    SetupDone =>
        /\ SinksInstalled
        /\ Unparseable("LOGSEQ_MCP_LOG_MAX_SIZE", parse_size) =>
               settings.max_file_size =
                   Prefer(LastArgs.max_file_size, IntV(10 * 1024 * 1024))
        /\ UnrecognizedMode => settings.mode = PRIVACY
        /\ Unparseable("LOGSEQ_MCP_LOG_RETENTION_DAYS", PyInt) =>
               settings.retention_days = LastArgs.retention_days

\* A call with arguments of its own and an environment whose mode, size
\* and retention are all invalid.
C14_Witness ==
    /\ SetupDone
    /\ SinksInstalled
    /\ LastEnv.LOGSEQ_MCP_LOG_MODE = StrV(<<"b", "o", "g", "u", "s">>)
    /\ LastEnv.LOGSEQ_MCP_LOG_MAX_SIZE = StrV(<<"1", ".", "5", "M", "B">>)
    /\ LastEnv.LOGSEQ_MCP_LOG_RETENTION_DAYS = StrV(<<"a", "b", "c">>)
    /\ LastArgs.log_mode = StrV(<<"m", "i", "n", "i", "m", "a", "l">>)
    /\ settings.mode = PRIVACY
    /\ settings.max_file_size = IntV(1000)
    /\ settings.retention_days = IntV(3)

\* The root logger's handlers named `name`.
Sinks(name) == {i \in DOMAIN handlers : handlers[i].name = name}

\* The handler has the filter attached.
Attached(i, filter) == filter \in Range(handlers[i].filters)

\* C15: after any sequence of setup_logging calls the root logger holds
\* exactly one file sink (JSON output, threshold DEBUG, Privacy Filter
\* attached), exactly one stderr sink (threshold ERROR, severity filter and
\* Privacy Filter attached), and a stdout sink if and only if the debug flag
\* is set or the mode is DEBUG, which has the Privacy Filter attached if and
\* only if the mode is not DEBUG; no sink of an earlier configuration
\* remains.
C15_SinkTopology ==
    SetupDone =>
        /\ Cardinality(Sinks("file")) = 1
        /\ \A i \in Sinks("file") :
              /\ handlers[i].formatter = "json"
              /\ handlers[i].level = DEBUG
              /\ Attached(i, "PrivacyFilter")
        /\ Cardinality(Sinks("stderr")) = 1
        /\ \A i \in Sinks("stderr") :
              /\ handlers[i].level = ERROR
              /\ Attached(i, "StderrFilter")
              /\ Attached(i, "PrivacyFilter")
        /\ Cardinality(Sinks("stdout")) =
              IF settings.debug \/ settings.mode = DEBUG_MODE THEN 1 ELSE 0
        /\ \A i \in Sinks("stdout") :
              Attached(i, "PrivacyFilter") <=> settings.mode # DEBUG_MODE
        /\ Len(handlers) = Cardinality(Sinks("file") \cup Sinks("stderr") \cup Sinks("stdout"))
        /\ privacy_filter.mode = settings.mode

\* A second call without a stdout sink, after a first call whose stdout
\* sink wrote the startup record.
C15_Witness ==
    /\ Len(events) = 2
    /\ SetupDone
    /\ \E i \in DOMAIN events[1].written : events[1].written[i].handler = "stdout"
    /\ ~settings.debug
    /\ settings.mode = PRIVACY
    /\ Len(handlers) = 2

\* What the last setup_logging call made the sinks write.
LastWritten == events[Len(events)].written

\* The installed sinks a record of the given level gets to: those whose
\* threshold it reaches.
SinksReached(levelno) ==
    SelectSeq([i \in DOMAIN handlers |-> handlers[i].name],
              LAMBDA name : \E i \in Sinks(name) : handlers[i].level <= levelno)

\* C17 as stated: each call of setup_logging, for every resolved level and
\* mode, emits exactly one informational record carrying the resolved
\* settings.
C17_AsStated ==
    SetupDone =>
        /\ record0 # NoRecord
        /\ record0.levelno = INFO
        /\ record0.log_level = settings.log_level

\* C17: each call of setup_logging whose resolved level is INFO or lower
\* emits exactly one informational record immediately after the sinks are
\* installed, carrying the level name as configured, the file path, debug
\* flag, mode, max size and retention as attached fields; it passes through
\* the filter chains of the just-installed sinks only, which write it
\* unless the mode is MINIMAL.  A call whose resolved level is above INFO
\* emits no record.
C17_StartupRecord ==
    SetupDone =>
        IF settings.level <= INFO
        THEN /\ record0.levelno = INFO
             /\ record0.log_level = Prefer(LastEnv.LOGSEQ_MCP_LOG_LEVEL, LastArgs.log_level)
             /\ record0.log_file = settings.path
             /\ record0.debug_mode = BoolV(settings.debug)
             /\ record0.log_mode = settings.mode
             /\ record0.max_file_size = settings.max_file_size
             /\ record0.retention_days = settings.retention_days
             /\ Len(filterLog) = Cardinality({i \in DOMAIN handlers :
                                                 /\ handlers[i].level <= INFO
                                                 /\ Attached(i, "PrivacyFilter")})
             /\ [i \in DOMAIN LastWritten |-> LastWritten[i].handler] =
                   IF settings.mode = MINIMAL THEN <<>> ELSE SinksReached(INFO)
        ELSE /\ record0 = NoRecord
             /\ filterLog = <<>>
             /\ LastWritten = <<>>

\* A second call at level DEBUG in DEBUG mode: the file sink and the
\* stdout sink have written the startup record.
C17_Witness ==
    /\ Len(events) = 2
    /\ SetupDone
    /\ settings.level = DEBUG
    /\ settings.mode = DEBUG_MODE
    /\ Len(events[1].written) = 2
    /\ Len(LastWritten) = 2
    /\ LastWritten[1].handler = "file"
    /\ LastWritten[2].handler = "stdout"
    /\ record0.log_mode = DEBUG_MODE
    /\ record0.max_file_size = IntV(2048)

\* The sinks named `name` have written the record of the logging call.
WrittenBy(name) == \E i \in DOMAIN emitted : emitted[i].handler = name

\* A logging call has been made and is over, by return or by exception.
LogCallOver ==
    pc \in {"returned", "raised"} /\ call.method = "none" /\ record0 # NoRecord

\* C16: for every logging mode, every record of severity ERROR or above is
\* delivered to the stderr sink, no record below ERROR is delivered to the
\* stderr sink, and a record below ERROR reaches a console only through the
\* stdout sink, and only when that sink is installed.
C16_ErrorsReachStderr ==
    LogCallOver =>
        /\ record0.levelno >= ERROR /\ record0.levelno >= root_level => WrittenBy("stderr")
        /\ record0.levelno < ERROR => ~WrittenBy("stderr")
        /\ record0.levelno < ERROR /\ WrittenBy("stdout") => Sinks("stdout") # {}

\* The last operation, and its being over.
LastEvent == events[Len(events)]
IsOver(op) == pc \in {"returned", "raised"} /\ events # <<>> /\ LastEvent.op = op

\* The record of a logging call carries the fields log_tool_invocation
\* gives it for the arguments of the call `input`.
ToolFields(rec, name, input) ==
    /\ rec.tool_name = StrV(name)
    /\ rec.arguments = input.arguments
    /\ IF input.error # NoneV
       THEN /\ rec.levelno = ERROR
            /\ rec.error = StrV(input.error.v)
            /\ rec.result = Absent
       ELSE /\ rec.levelno = INFO
            /\ rec.result = input.result
            /\ rec.error = Absent
    /\ (rec.duration_ms # Absent) <=> (input.duration_ms # NoneV)
    /\ rec.duration_ms # Absent => rec.duration_ms = input.duration_ms

\* C18 as stated: each call of log_tool_invocation emits exactly one
\* record, at ERROR with tool_name, arguments and error and no result when
\* an error is given, at INFO with tool_name, arguments and result and no
\* error otherwise, duration_ms attached exactly when given.
C18_AsStated ==
    IsOver("log_tool_invocation") =>
        /\ Len(LastEvent.calls) = 1
        /\ LastEvent.calls[1].created
        /\ ToolFields(LastEvent.calls[1].record, LastEvent.name, LastEvent.input)

\* C18, amended: each call of log_tool_invocation makes exactly one logging
\* call, which creates a record exactly when its severity is enabled at the
\* root logger's level; the call is at ERROR with tool_name, arguments and
\* error (the error's string) and no result when an error is given, at INFO
\* with tool_name, arguments and result (None included) and no error
\* otherwise, and duration_ms is attached exactly when it is not None.
C18_OneLoggingCall ==
    IsOver("log_tool_invocation") =>
        /\ Len(LastEvent.calls) = 1
        /\ LastEvent.calls[1].via = "log_tool_invocation"
        /\ LastEvent.calls[1].created <=> LastEvent.calls[1].record.levelno >= root_level
        /\ ToolFields(LastEvent.calls[1].record, LastEvent.name, LastEvent.input)

\* A failure logged with a duration of 0 and a result given as well: the
\* ERROR record is created, carries the duration and no result.
C18_Witness ==
    /\ IsOver("log_tool_invocation")
    /\ LastEvent.input.error # NoneV
    /\ LastEvent.input.result # NoneV
    /\ LastEvent.input.duration_ms = IntV(0)
    /\ LastEvent.calls[1].created
    /\ LastEvent.calls[1].record.duration_ms = IntV(0)
    /\ LastEvent.calls[1].record.result = Absent

\* The logging calls of the last operation made through log_tool_invocation.
ToolRecords == {i \in 1..Len(LastEvent.calls) : LastEvent.calls[i].via = "log_tool_invocation"}

\* C19: every tool call handled by handle_call_tool, whether it returns,
\* raises from the handler, names an unknown tool or arrives while the
\* client is not initialized, has made exactly one log_tool_invocation call
\* when it returns or raises.
C19_OneToolRecord ==
    IsOver("handle_call_tool") => Cardinality(ToolRecords) = 1

\* The same for the calls that reach the try block and whose logging calls
\* all return: there the one record is made.
C19_TryBlockProbe ==
    (/\ IsOver("handle_call_tool")
     /\ LastEvent.client
     /\ LastEvent.name \in tool_handlers
     /\ LastEvent.exc \in {"none", "ConnectError"}) => Cardinality(ToolRecords) = 1

\* The last operation was a client method whose upstream request failed,
\* in the transport or with an HTTP status.
RequestFailed ==
    /\ IsOver("client")
    /\ LastEvent.input \in {"HTTPStatusError", "ConnectError"}

\* The logging calls of the last operation that _request made at ERROR.
RequestErrors ==
    {i \in 1..Len(LastEvent.calls) :
        /\ LastEvent.calls[i].via = "_request"
        /\ LastEvent.calls[i].record.levelno = ERROR}

\* The failure was logged by _request: one record at ERROR, with trace.
LoggedWithTrace ==
    /\ Cardinality(RequestErrors) = 1
    /\ \A i \in RequestErrors :
          LastEvent.calls[i].created /\ LastEvent.calls[i].record.exc_info

\* The client methods that catch the failure of their request.
Swallowing == {"get_page_blocks", "get_all_pages", "search_pages"}

\* C20 as stated: every transport or HTTP-status failure of an upstream
\* request is logged at ERROR with trace and raised again to the caller of
\* the client method; no client method swallows it.
C20_AsStated ==
    RequestFailed => LoggedWithTrace /\ LastEvent.exc = LastEvent.input

\* C20, amended: every transport or HTTP-status failure of an upstream
\* request is logged by _request at ERROR with trace and raised again to
\* the client method.  get_page (after one more ERROR record, without
\* trace), execute_query, create_block, update_block and delete_block let
\* it reach their caller; get_page_blocks, get_all_pages and search_pages
\* log one more ERROR record without trace and return an empty list.
C20_RaisedOrEmptied ==
    RequestFailed =>
        /\ LoggedWithTrace
        /\ IF LastEvent.name \in Swallowing
           THEN /\ LastEvent.exc = "none"
                /\ LastEvent.v = ListObj(<<>>)
           ELSE LastEvent.exc = LastEvent.input
        /\ LET last == LastEvent.calls[Len(LastEvent.calls)]
           IN  IF LastEvent.name \in Swallowing \cup {"get_page"}
               THEN /\ last.via = LastEvent.name
                    /\ last.record.levelno = ERROR
                    /\ ~last.record.exc_info
               ELSE last.via = "_request" /\ last.record.levelno = ERROR

\* search_pages, the upstream answering with an HTTP error status: the
\* failure is logged with trace, and search_pages returns.
C20_Witness ==
    /\ RequestFailed
    /\ LastEvent.name = "search_pages"
    /\ LastEvent.input = "HTTPStatusError"
    /\ LoggedWithTrace
    /\ LastEvent.exc = "none"

\* One pass of the PRIVACY filter is done on a record whose message is text.
FilteredOnce ==
    /\ privacy_filter.mode = PRIVACY
    /\ call.method = "none"
    /\ IsStr(record0.msg)
    /\ Len(filterLog) = 1
    /\ filterLog[1].outcome = "True"

\* The entries of MessagePatterns that match the text s, and the one match
\* of entry k in it.
Matching(s) == {k \in 1..Len(MessagePatterns) : FindAll(s, 1, MessagePatterns[k].pat) # <<>>}
OneMatch(s, k) == FindAll(s, 1, MessagePatterns[k].pat)[1]

\* The text s with the group of the match m replaced by what the sanitizer
\* method of entry k makes of it, and every other character kept.
GroupReplaced(s, k, m) ==
    SubSeq(s, 1, m.gs - 1)
    \o (IF MessagePatterns[k].method = "page_name"
        THEN sanitize_page_name(privacy_filter.sanitizer, <<>>, StrV(SubSeq(s, m.gs, m.ge - 1)))
        ELSE sanitize_query(privacy_filter.sanitizer, <<>>, StrV(SubSeq(s, m.gs, m.ge - 1)))).v.v
    \o SubSeq(s, m.ge, Len(s))

\* C26: in PRIVACY mode, for a message of one of the known shapes, filter()
\* replaces only the captured portion by the output of the sanitizer
\* method; every character outside the group, the surrounding quotes
\* included, is left unchanged.
C26_OnlyGroupReplaced ==
    FilteredOnce =>
        \A k \in Matching(record0.msg.v) :
            (/\ Matching(record0.msg.v) = {k}
             /\ Len(FindAll(record0.msg.v, 1, MessagePatterns[k].pat)) = 1)
            => record.msg.v = GroupReplaced(record0.msg.v, k, OneMatch(record0.msg.v, k))

\* The same for the messages without a double quote: there only the group
\* is replaced.
C26_SingleQuotedKept ==
    (FilteredOnce /\ "\"" \notin Range(record0.msg.v)) =>
        \A k \in Matching(record0.msg.v) :
            (/\ Matching(record0.msg.v) = {k}
             /\ Len(FindAll(record0.msg.v, 1, MessagePatterns[k].pat)) = 1)
            => record.msg.v = GroupReplaced(record0.msg.v, k, OneMatch(record0.msg.v, k))

\* A quoted page name has been through one pass of the filter.
C26_Reached ==
    /\ FilteredOnce
    /\ Matching(record0.msg.v) = {1}
    /\ record.msg # record0.msg

\* sanitize_dict has been called directly, and the call is over.
DictCallOver == call.method = "dict" /\ pc \in {"returned", "raised"}

\* The items of the mapping handed to sanitize_dict whose value is a
\* non-empty list.
ListItems ==
    {i \in 1..Len(heap0[call.arg.v].v) :
        /\ IsList(heap0, heap0[call.arg.v].v[i][2])
        /\ Len(heap0[heap0[call.arg.v].v[i][2].v].v) > 0}

\* What sanitize_dict returned under `key` is what the claim says for the
\* list elems: a count marker for a list of scalars, and for a list whose
\* first element is a mapping the list of what sanitize_dict makes of each
\* element under the same rules.
ListSanitized(key, elems) ==
    /\ HasKey(heap[out.v.v].v, key)
    /\ IF ~IsDict(heap0, elems[1])
       THEN GetItem(heap[out.v.v].v, key)
            = StrV(S.list_with_ \o IntToStr(Len(elems)) \o S.items)
       ELSE /\ IsList(heap, GetItem(heap[out.v.v].v, key))
            /\ Len(heap[GetItem(heap[out.v.v].v, key).v].v) = Len(elems)
            /\ \A i \in 1..Len(elems) :
                  /\ sanitize_dict(call.self, heap0, elems[i], call.rules).exc = "none"
                  /\ Deref(heap, heap[GetItem(heap[out.v.v].v, key).v].v[i])
                     = Deref(sanitize_dict(call.self, heap0, elems[i], call.rules).h,
                             sanitize_dict(call.self, heap0, elems[i], call.rules).v)

\* C27: sanitize_dict replaces every non-empty list of scalars by
\* [list_with_<N>_items], N its length, and returns for every non-empty
\* list whose first element is a mapping a list of the same length whose
\* i-th element is sanitize_dict of the i-th element under the same rules,
\* whatever follows the first element.
C27_ListsSanitized ==
    DictCallOver =>
        \A i \in ListItems :
            /\ out.exc = "none"
            /\ ListSanitized(heap0[call.arg.v].v[i][1], heap0[heap0[call.arg.v].v[i][2].v].v)

\* The same for the calls that return: their lists are as the claim says.
C27_WhenReturned ==
    (DictCallOver /\ out.exc = "none") =>
        \A i \in ListItems :
            ListSanitized(heap0[call.arg.v].v[i][1], heap0[heap0[call.arg.v].v[i][2].v].v)

\* A call with a list of two mappings has returned.
C27_Reached ==
    /\ DictCallOver
    /\ out.exc = "none"
    /\ \E i \in ListItems :
          /\ Len(heap0[heap0[call.arg.v].v[i][2].v].v) = 2
          /\ IsDict(heap0, heap0[heap0[call.arg.v].v[i][2].v].v[1])

\* One pass of the PRIVACY filter is done on a record whose arguments hold
\* a mapping under `properties`.
PropertiesFiltered ==
    /\ privacy_filter.mode = PRIVACY
    /\ call.method = "none"
    /\ Len(filterLog) = 1
    /\ filterLog[1].outcome = "True"
    /\ IsDict(heap0, record0.arguments)
    /\ HasKey(heap0[record0.arguments.v].v, K.properties)
    /\ IsDict(heap0, GetItem(heap0[record0.arguments.v].v, K.properties))

\* The keys sanitize_properties always redacts.
IsSensitive(key) == \E sensitive \in sensitive_keys : Contains(Lower(key), sensitive)

\* C29: in PRIVACY mode every value of the `properties` mapping of
\* `arguments` under a key containing password, token, secret, key,
\* api_key, email, phone, ssn or credit_card is [REDACTED] on the filtered
\* record, never the original value.
C29_PropertiesRedacted ==
    PropertiesFiltered =>
        /\ IsDict(heap, record.arguments)
        /\ HasKey(heap[record.arguments.v].v, K.properties)
        /\ IsDict(heap, GetItem(heap[record.arguments.v].v, K.properties))
        /\ \A i \in 1..Len(heap0[GetItem(heap0[record0.arguments.v].v, K.properties).v].v) :
              IsSensitive(heap0[GetItem(heap0[record0.arguments.v].v, K.properties).v].v[i][1])
              => heap[GetItem(heap[record.arguments.v].v, K.properties).v].v[i]
                 = <<heap0[GetItem(heap0[record0.arguments.v].v, K.properties).v].v[i][1],
                     StrV(S.REDACTED)>>

\* What the filtered record carries instead: the properties as they were
\* given, the password included.
C29_PropertiesKept ==
    PropertiesFiltered =>
        Deref(heap, GetItem(heap[record.arguments.v].v, K.properties))
        = Deref(heap0, GetItem(heap0[record0.arguments.v].v, K.properties))

\* One pass of the PRIVACY filter is done on a record whose result is a
\* mapping.
MappingFiltered ==
    /\ privacy_filter.mode = PRIVACY
    /\ call.method = "none"
    /\ Len(filterLog) = 1
    /\ filterLog[1].outcome = "True"
    /\ IsDict(heap0, record0.result)

\* The block `block` (a tree) with other content, and the page `page` with
\* another name; what is not a mapping, or has no such field, is kept.
OtherContent(block) ==
    IF block.t = "dict" /\ HasKey(block.v, K.content)
    THEN DictObj(SetItem(block.v, K.content, StrV(<<"o", "t", "h", "e", "r">>)))
    ELSE block
OtherName(page) ==
    IF page.t = "dict" /\ HasKey(page.v, K.name)
    THEN DictObj(SetItem(page.v, K.name, StrV(<<"O", "t", "h", "e", "r">>)))
    ELSE page

\* The tool results that differ from `result` (a tree) only in the content
\* of the blocks under `blocks`, or only in the page's name.
Differing(result) ==
    {IF HasKey(result.v, <<"b", "l", "o", "c", "k", "s">>)
        /\ GetItem(result.v, <<"b", "l", "o", "c", "k", "s">>).t = "list"
     THEN DictObj(SetItem(result.v, <<"b", "l", "o", "c", "k", "s">>,
              ListObj([i \in 1..Len(GetItem(result.v, <<"b", "l", "o", "c", "k", "s">>).v) |->
                          OtherContent(GetItem(result.v, <<"b", "l", "o", "c", "k", "s">>).v[i])])))
     ELSE result,
     IF HasKey(result.v, K.page)
     THEN DictObj(SetItem(result.v, K.page, OtherName(GetItem(result.v, K.page))))
     ELSE result}

\* The `result` field filter() leaves on the record of this call, had the
\* result been the tree `result`.
FilteredResult(result) ==
    LET a == Alloc(<<>>, result)
        f == PrivacyFilter_filter(privacy_filter, a.h,
                                  [record0 EXCEPT !.arguments = Absent, !.result = a.v])
    IN  Deref(f.h, f.record.result)

\* C28: in PRIVACY mode two tool results that differ only in the content of
\* blocks or in a page's name leave identical `result` fields on the
\* filtered record.
C28_ResultsIndistinguishable ==
    MappingFiltered =>
        \A other \in Differing(Deref(heap0, record0.result)) :
            FilteredResult(other) = Deref(heap, record.result)

\* What the filter does with the blocks of a result: they are on the
\* filtered record as they were given.
C28_BlocksKept ==
    (/\ MappingFiltered
     /\ HasKey(heap0[record0.result.v].v, <<"b", "l", "o", "c", "k", "s">>))
    => Deref(heap, GetItem(heap[record.result.v].v, <<"b", "l", "o", "c", "k", "s">>))
       = Deref(heap0, GetItem(heap0[record0.result.v].v, <<"b", "l", "o", "c", "k", "s">>))

\* A date has been converted to its journal name, and the name back.
RoundTrip ==
    /\ Len(events) = 2
    /\ events[1].op = "date_to_journal_format"
    /\ events[1].input.t = "date"
    /\ events[2].op = "journal_format_to_date"

\* The journal name of a date carries the ordinal suffix the claim gives
\* the day: th for 11 to 13, else by the last digit.
SuffixAsClaimed ==
    \A i \in 1..Len(events) :
        (events[i].op = "date_to_journal_format" /\ events[i].input.t = "date")
        => LET day == events[i].input.day
               text == IntToStr(day)
                       \o (IF day \in 11..13 THEN <<"t", "h">>
                           ELSE IF day % 10 = 1 THEN <<"s", "t">>
                           ELSE IF day % 10 = 2 THEN <<"n", "d">>
                           ELSE IF day % 10 = 3 THEN <<"r", "d">>
                           ELSE <<"t", "h">>)
                       \o <<",", " ">>
           IN  /\ events[i].exc = "none"
               /\ SubSeq(events[i].v.v, 5, 4 + Len(text)) = text

\* C25: for every calendar date d,
\* journal_format_to_date(date_to_journal_format(d)) = d, the journal name
\* carrying th for the days 11 to 13 and else st, nd, rd or th by the last
\* digit of the day.
C25_RoundTrip ==
    /\ SuffixAsClaimed
    /\ RoundTrip => events[2].exc = "none" /\ events[2].v = events[1].input

\* The same for the dates whose year has four digits, and for every date
\* where strftime pads the year.
C25_FourDigitYears ==
    /\ SuffixAsClaimed
    /\ (RoundTrip /\ (events[1].input.year >= 1000 \/ events[1].padded))
       => events[2].exc = "none" /\ events[2].v = events[1].input

\* The 22nd of a month has made the round trip.
C25_Reached ==
    /\ RoundTrip
    /\ events[1].input.day = 22
    /\ events[2].v = events[1].input

\* The logging calls that _request made during the last operation.
RequestCalls == {i \in 1..Len(LastEvent.calls) : LastEvent.calls[i].via = "_request"}

\* json.dumps of the request_data of the first request of a client method
\* called as ClientCall calls it.
RequestText(method) ==
    Dumps(RequestData(Action[method], RequestArgs(method, <<>>, MethodCalls[method])))

\* The record carries payload: it has the request_data or the response_data
\* field, or its message holds the JSON text of the request.
CarriesPayload(rec, method) ==
    \/ DOMAIN rec \cap {"request_data", "response_data"} # {}
    \/ Contains(rec.msg.v, RequestText(method))

\* C21: for an upstream call the client logs the action name and the
\* request and response payload only as a truncated preview, at most 500
\* characters of stored detail, and only at DEBUG: no record of _request at
\* INFO or above carries request or response payload text.
C21_PayloadOnlyAtDebug ==
    IsOver("client") =>
        \A i \in RequestCalls :
            /\ LastEvent.calls[i].record.levelno >= INFO
                  => ~CarriesPayload(LastEvent.calls[i].record, LastEvent.name)
            /\ "response_data" \in DOMAIN LastEvent.calls[i].record
                  => \/ LastEvent.calls[i].record.response_data = NoneV
                     \/ Len(LastEvent.calls[i].record.response_data.v) <= 500

\* What does hold of the records of _request: the response_data field is
\* on DEBUG records only and has at most 500 characters, and a record at
\* INFO or above has neither payload field unless it is the ERROR record of
\* a failed request.
C21_StoredDetailProbe ==
    IsOver("client") =>
        \A i \in RequestCalls :
            /\ "response_data" \in DOMAIN LastEvent.calls[i].record
                  => /\ LastEvent.calls[i].record.levelno = DEBUG
                     /\ \/ LastEvent.calls[i].record.response_data = NoneV
                        \/ Len(LastEvent.calls[i].record.response_data.v) <= 500
            /\ "request_data" \in DOMAIN LastEvent.calls[i].record
                  => LastEvent.calls[i].record.levelno \in {DEBUG, ERROR}

\* get_page_blocks has returned a body whose JSON text is longer than 500
\* characters, and the DEBUG record of the response holds 500 of them.
C21_LongBodyReached ==
    /\ IsOver("client")
    /\ \E i \in RequestCalls :
          /\ "response_data" \in DOMAIN LastEvent.calls[i].record
          /\ LastEvent.calls[i].record.response_data # NoneV
          /\ Len(LastEvent.calls[i].record.response_data.v) = 500

\* The upstream request behind the last operation failed: _request logged
\* the failure at ERROR.
UpstreamFailed ==
    \E i \in 1..Len(LastEvent.calls) :
        /\ LastEvent.calls[i].via = "_request"
        /\ LastEvent.calls[i].record.levelno = ERROR

\* C30: when the upstream request behind a tool call fails, the completion
\* record that handle_call_tool emits for the call is at ERROR and carries
\* an error field and no result field; it is never the INFO record of a
\* call that completed successfully.
C30_FailureCompletesAtError ==
    (IsOver("handle_call_tool") /\ UpstreamFailed) =>
        /\ ToolRecords # {}
        /\ \A i \in ToolRecords :
              /\ LastEvent.calls[i].record.levelno = ERROR
              /\ LastEvent.calls[i].record.error # Absent
              /\ LastEvent.calls[i].record.result = Absent

\* What does hold: a tool call whose upstream request failed returns, and
\* its one completion record is at INFO with the handler's result and no
\* error field.
C30_CompletesAtInfoProbe ==
    (IsOver("handle_call_tool") /\ UpstreamFailed) =>
        /\ LastEvent.exc = "none"
        /\ Cardinality(ToolRecords) = 1
        /\ \A i \in ToolRecords :
              /\ LastEvent.calls[i].record.levelno = INFO
              /\ LastEvent.calls[i].record.error = Absent
              /\ LastEvent.calls[i].record.result = LastEvent.v

\* delete_block was called through handle_call_tool and the upstream
\* refused the connection.
C30_RefusedReached ==
    /\ IsOver("handle_call_tool")
    /\ UpstreamFailed
    /\ LastEvent.name = <<"d", "e", "l", "e", "t", "e", "_", "b", "l", "o", "c", "k">>
    /\ LastEvent.input.first = Upstream.refused

\* The client call of the last operation raised into the handler: a request
\* failed and no method of the client caught the failure, or create_block
\* was given neither a page nor a parent block.
RequestRaised ==
    \E i \in 1..Len(LastEvent.calls) :
        /\ LastEvent.calls[i].via = "_request"
        /\ LastEvent.calls[i].record.levelno = ERROR
        /\ ~(i < Len(LastEvent.calls) /\ LastEvent.calls[i + 1].via \in Swallowing)
ValidationRaised ==
    /\ LastEvent.name = <<"c", "r", "e", "a", "t", "e", "_", "b", "l", "o", "c", "k">>
    /\ LastEvent.client
    /\ HasKey(heap0[LastEvent.input.arguments.v].v, K.content)
    /\ ~Truthy(heap0, Get(heap0, LastEvent.input.arguments, K.page, NoneV))
    /\ ~Truthy(heap0, Get(heap0, LastEvent.input.arguments, Keys.parent_block_id, NoneV))

\* The texts of the exceptions the client call of the last operation can
\* have raised.
RaisedTexts ==
    {r.v.v : r \in {a \in {LastEvent.input.first, LastEvent.input.second} :
                        a.exc # "none"}}
    \cup (IF ValidationRaised
          THEN {<<"E", "i", "t", "h", "e", "r", " ", "p", "a", "g", "e", " ", "o", "r", " ",
                  "p", "a", "r", "e", "n", "t", "_", "b", "l", "o", "c", "k", "_", "i", "d",
                  " ", "m", "u", "s", "t", " ", "b", "e", " ", "p", "r", "o", "v", "i", "d",
                  "e", "d">>}
          ELSE {})

\* The last operation returned {"success": False, "error": <text>}, the
\* text containing the text of a raised exception.
FailureReturned ==
    /\ LastEvent.exc = "none"
    /\ LastEvent.v.t = "ref"
    /\ heap[LastEvent.v.v].t = "dict"
    /\ HasKey(heap[LastEvent.v.v].v, Keys.success)
    /\ GetItem(heap[LastEvent.v.v].v, Keys.success) = BoolV(FALSE)
    /\ HasKey(heap[LastEvent.v.v].v, Keys.error)
    /\ GetItem(heap[LastEvent.v.v].v, Keys.error).t = "str"
    /\ \E text \in RaisedTexts :
          Contains(GetItem(heap[LastEvent.v.v].v, Keys.error).v, text)

C22_ValidationReached ==
    /\ IsOver("tool_handler")
    /\ ValidationRaised
    /\ FailureReturned

\* The requests of the last operation for a page and for the blocks of a
\* page: the indices of the records _request logged before each POST.
Requests(method) ==
    {i \in 1..Len(LastEvent.calls) :
        /\ LastEvent.calls[i].via = "_request"
        /\ LastEvent.calls[i].record.msg.v = <<"L", "o", "g", "s", "e", "q", " ", "A", "P",
                "I", " ", "r", "e", "q", "u", "e", "s", "t", ":", " ">> \o Action[method]}

\* The last operation was handle_get_page or handle_get_journal_page, with
\* a client, and it has asked for the page.
PageAsked ==
    /\ IsOver("tool_handler")
    /\ LastEvent.client
    /\ LastEvent.name \in {<<"g", "e", "t", "_", "p", "a", "g", "e">>, <<"g", "e", "t", "_",
            "j", "o", "u", "r", "n", "a", "l", "_", "p", "a", "g", "e">>}
    /\ Requests("get_page") # {}

\* The mapping the last operation returned, its values as trees.
Returned == Deref(heap, LastEvent.v).v

\* C23: handle_get_page and handle_get_journal_page request the page before
\* its blocks; when the page lookup returns nothing they return
\* success = False and never request blocks; when include_children is false
\* they never request blocks; and when the page exists but the retrieval of
\* its blocks fails they return success = True with the page and an empty
\* blocks list.
C23_PageBeforeBlocks ==
    /\ (/\ IsOver("tool_handler")
        /\ LastEvent.name \in {<<"g", "e", "t", "_", "p", "a", "g", "e">>, <<"g", "e", "t",
                "_", "j", "o", "u", "r", "n", "a", "l", "_", "p", "a", "g", "e">>})
          => \A b \in Requests("get_page_blocks") :
                \E p \in Requests("get_page") : p < b
    /\ (PageAsked /\ LastEvent.input.first = Upstream.nothing)
          => /\ LastEvent.exc = "none"
             /\ GetItem(Returned, Keys.success) = BoolV(FALSE)
             /\ Requests("get_page_blocks") = {}
    /\ (/\ PageAsked
        /\ ~Truthy(heap0, Get(heap0, LastEvent.input.arguments, Keys.include_children,
                              BoolV(TRUE))))
          => Requests("get_page_blocks") = {}
    /\ (/\ PageAsked
        /\ Requests("get_page_blocks") # {}
        /\ LastEvent.input.second.exc # "none")
          => /\ LastEvent.exc = "none"
             /\ GetItem(Returned, Keys.success) = BoolV(TRUE)
             /\ GetItem(Returned, K.page) = LastEvent.input.first.v
             /\ GetItem(Returned, Keys.blocks) = ListObj(<<>>)

\* handle_get_page found the page, asked for its blocks, the upstream
\* refused, and the handler returned the page with an empty blocks list.
C23_Witness ==
    /\ PageAsked
    /\ LastEvent.name = <<"g", "e", "t", "_", "p", "a", "g", "e">>
    /\ LastEvent.input.first = Upstream.page
    /\ LastEvent.input.second = Upstream.refused
    /\ Requests("get_page_blocks") # {}
    /\ GetItem(Returned, Keys.success) = BoolV(TRUE)
    /\ GetItem(Returned, Keys.blocks) = ListObj(<<>>)

\* handle_get_journal_page did not find the page and returned
\* success = False after its one request.
C23_NotFoundReached ==
    /\ PageAsked
    /\ LastEvent.name = <<"g", "e", "t", "_", "j", "o", "u", "r", "n", "a", "l", "_", "p",
            "a", "g", "e">>
    /\ LastEvent.input.first = Upstream.nothing
    /\ Cardinality(Requests("get_page")) = 1
    /\ GetItem(Returned, Keys.success) = BoolV(FALSE)

\* handle_get_journal_page found the page and was told not to include the
\* children: one request, and success = True.
C23_WithoutChildrenReached ==
    /\ PageAsked
    /\ LastEvent.name = <<"g", "e", "t", "_", "j", "o", "u", "r", "n", "a", "l", "_", "p",
            "a", "g", "e">>
    /\ LastEvent.input.first = Upstream.page
    /\ ~Truthy(heap0, Get(heap0, LastEvent.input.arguments, Keys.include_children,
                          BoolV(TRUE)))
    /\ GetItem(Returned, Keys.success) = BoolV(TRUE)

\* The last operation raised RuntimeError("Logseq client not initialized")
\* and made no upstream request.
NotInitializedRaised ==
    /\ LastEvent.exc = "RuntimeError"
    /\ LastEvent.v = StrV(<<"L", "o", "g", "s", "e", "q", " ", "c", "l", "i", "e", "n", "t",
            " ", "n", "o", "t", " ", "i", "n", "i", "t", "i", "a", "l", "i", "z", "e",
            "d">>)
    /\ \A i \in 1..Len(LastEvent.calls) : LastEvent.calls[i].via # "_request"

\* The cleanups of the run: each leaves the client unset, closes it exactly
\* when there was one, and the cleanup that follows a cleanup closes
\* nothing.
CleanupsCloseOnce ==
    /\ IsOver("cleanup") => logseq_client = NoneV
    /\ \A i \in 1..Len(events) :
          events[i].op = "cleanup" =>
             /\ events[i].name = (IF events[i].client THEN <<"c", "l", "o", "s",
                     "e">> ELSE <<>>)
             /\ (i > 1 /\ events[i - 1].op = "cleanup") => ~events[i].client

\* C24: whenever the global client is unset, before
\* initialize_logseq_client has run or at any time after cleanup,
\* handle_call_tool and every tool handler raise RuntimeError("Logseq client
\* not initialized") and issue no upstream request; cleanup closes the
\* client once and leaves it unset, and a second cleanup is a no-op.
C24_UnsetClientRaises ==
    /\ ((IsOver("handle_call_tool") \/ IsOver("tool_handler")) /\ ~LastEvent.client)
          => NotInitializedRaised
    /\ CleanupsCloseOnce

\* What does hold: with the client unset every tool handler raises the
\* RuntimeError without a request, handle_call_tool makes no request and
\* raises the RuntimeError whenever its first logging call returns, and the
\* cleanups close the client once.
C24_HandlersProbe ==
    /\ (IsOver("tool_handler") /\ ~LastEvent.client) => NotInitializedRaised
    /\ (IsOver("handle_call_tool") /\ ~LastEvent.client)
          => /\ \A i \in 1..Len(LastEvent.calls) : LastEvent.calls[i].via # "_request"
             /\ LastEvent.exc \in {"RuntimeError", "TypeError"}
             /\ LastEvent.exc = "RuntimeError" => NotInitializedRaised
             /\ LastEvent.exc = "TypeError" => Len(LastEvent.calls) = 1
    /\ CleanupsCloseOnce

\* The client was initialized and cleaned up twice, the first cleanup
\* closing it and the second closing nothing, and a tool handler called
\* after that raised the RuntimeError.
C24_AfterCleanupReached ==
    /\ IsOver("tool_handler")
    /\ Len(events) = 4
    /\ events[1].op = "initialize_logseq_client"
    /\ events[2].op = "cleanup" /\ events[2].client
    /\ events[3].op = "cleanup" /\ ~events[3].client
    /\ NotInitializedRaised
=============================================================================
